---- MODULE Spec2Model ----
(***************************************************************************)
(* FinGuard: intent router, finance handlers, budget alerts and the        *)
(* per-user conversation session of the government-schemes agent.          *)
(*                                                                         *)
(* Text is held as a tuple of one-character strings so that lower(),       *)
(* strip(), startswith() and the `kw in text` tests are computed, not      *)
(* assumed.  An optional value (Python None / a value) is a tuple of       *)
(* length 0 or 1.  Confidence is held in hundredths (0.6 is 60).           *)
(***************************************************************************)
EXTENDS Integers, Sequences, FiniteSets, TLC

(***************************************************************************)
(* Keyword tables of the source.                                           *)
(***************************************************************************)
greetings ==
    << <<"h","i">>,
       <<"h","e","l","l","o">>,
       <<"h","e","y">>,
       <<"n","a","m","a","s","t","e">>,
       <<"n","a","m","a","s","k","a","r">>,
       <<"g","o","o","d"," ","m","o","r","n","i","n","g">>,
       <<"g","o","o","d"," ","a","f","t","e","r","n","o","o","n">>,
       <<"g","o","o","d"," ","e","v","e","n","i","n","g">>,
       <<"h","i","i">>,
       <<"h","i","i","i">>,
       <<"h","e","y","y","y">>,
       <<"h","e","l","o">>,
       <<"h","l","o">>,
       <<"h","o","l","a">>,
       <<"s","u","p">>,
       <<"w","a","s","s","u","p">>,
       <<"w","h","a","t","'","s"," ","u","p">>,
       <<"k","a","i","s","e"," ","h","o">>,
       <<"k","y","a"," ","h","a","a","l"," ","h","a","i">>,
       <<"h","o","w"," ","a","r","e"," ","y","o","u">>,
       <<"s","t","a","r","t">>,
       <<"b","e","g","i","n">>,
       <<"h","e","l","p">> >>

TodayKeywords ==
    << <<"t","o","d","a","y">>,
       <<"s","p","e","n","t"," ","t","o","d","a","y">>,
       <<"e","x","p","e","n","s","e","s"," ","t","o","d","a","y">>,
       <<"t","r","a","n","s","a","c","t","i","o","n","s"," ","t","o","d","a","y">>,
       <<"t","o","d","a","y","'","s"," ","s","p","e","n","d","i","n","g">> >>

YesterdayKeywords ==
    << <<"y","e","s","t","e","r","d","a","y">>,
       <<"s","p","e","n","t"," ","y","e","s","t","e","r","d","a","y">>,
       <<"y","e","s","t","e","r","d","a","y","'","s"," ","s","p","e","n","d","i","n","g">> >>

WeekKeywords ==
    << <<"l","a","s","t"," ","7"," ","d","a","y","s">>,
       <<"p","a","s","t"," ","w","e","e","k">>,
       <<"t","h","i","s"," ","w","e","e","k">> >>

SpendingKeywords ==
    << <<"t","o","t","a","l"," ","s","p","e","n","t">>,
       <<"h","o","w"," ","m","u","c","h"," ","s","p","e","n","t">>,
       <<"s","p","e","n","d","i","n","g">>,
       <<"e","x","p","e","n","s","e","s">>,
       <<"r","e","m","a","i","n","i","n","g">>,
       <<"l","e","f","t">>,
       <<"b","a","l","a","n","c","e">>,
       <<"b","u","d","g","e","t"," ","s","t","a","t","u","s">>,
       <<"m","o","n","t","h","l","y"," ","r","e","p","o","r","t">>,
       <<"s","p","e","n","d","i","n","g"," ","r","e","p","o","r","t">>,
       <<"s","h","o","w"," ","s","p","e","n","d","i","n","g">>,
       <<"h","o","w"," ","m","u","c","h"," ","d","i","d"," ","i"," ","s","p","e","n","d">>,
       <<"w","h","a","t"," ","d","i","d"," ","i"," ","s","p","e","n","d">>,
       <<"s","p","e","n","t"," ","f","o","r">> >>

TransactionKeywords ==
    << <<"s","p","e","n","t">>,
       <<"p","a","i","d">>,
       <<"b","o","u","g","h","t">>,
       <<"p","u","r","c","h","a","s","e","d">>,
       <<"c","o","s","t">>,
       <<"r","u","p","e","e","s">>,
       <<"INR">>,
       <<"r","s">> >>

ReportCategories ==
    << <<"f","o","o","d">>,
       <<"t","r","a","n","s","p","o","r","t">>,
       <<"s","h","o","p","p","i","n","g">>,
       <<"e","n","t","e","r","t","a","i","n","m","e","n","t">>,
       <<"b","i","l","l","s">>,
       <<"h","e","a","l","t","h">>,
       <<"e","d","u","c","a","t","i","o","n">> >>

(***************************************************************************)
(* Sample request texts (the `query` field of POST /query).                *)
(***************************************************************************)
\* 'Hi'
Q_hi ==
    <<"H","i">>

\* ' hello ji'
Q_hello_ji ==
    <<" ","h","e","l","l","o"," ","j","i">>

\* 'spent 50'
Q_spent50 ==
    <<"s","p","e","n","t"," ","5","0">>

\* 'ok?'
Q_ok ==
    <<"o","k","?">>

\* 'help me with a loan?'
Q_help_loan ==
    <<"h","e","l","p"," ","m","e"," ","w","i","t","h"," ","a"," ","l","o","a","n","?">>

\* 'what is a mudra loan?'
Q_mudra ==
    <<"w","h","a","t"," ","i","s"," ","a"," ","m","u","d","r","a"," ","l","o","a","n","?">>

\* 'Spent 50 on tea'
Q_tea ==
    <<"S","p","e","n","t"," ","5","0"," ","o","n"," ","t","e","a">>

\* 'spent 50 on tea today'
Q_tea_today ==
    <<"s","p","e","n","t"," ","5","0"," ","o","n"," ","t","e","a"," ","t","o","d","a","y">>

\* 'what did i spend yesterday?'
Q_yesterday ==
    <<"w","h","a","t"," ","d","i","d"," ","i"," ","s","p","e","n","d"," ","y","e","s","t","e","r","d","a","y","?">>

\* 'expenses this week'
Q_week ==
    <<"e","x","p","e","n","s","e","s"," ","t","h","i","s"," ","w","e","e","k">>

\* 'show spending on food'
Q_food ==
    <<"s","h","o","w"," ","s","p","e","n","d","i","n","g"," ","o","n"," ","f","o","o","d">>

\* 'set food budget to 500'
Q_budget ==
    <<"s","e","t"," ","f","o","o","d"," ","b","u","d","g","e","t"," ","t","o"," ","5","0","0">>

\* 'tell me more'
Q_more ==
    <<"t","e","l","l"," ","m","e"," ","m","o","r","e">>

\* 'spending today, yesterday, this week'
Q_all_windows ==
    <<"s","p","e","n","d","i","n","g"," ","t","o","d","a","y",","," ","y","e","s","t","e","r","d","a","y",","," ","t","h","i","s"," ","w","e","e","k">>

\* 'yesterday or this week'
Q_yesterday_week ==
    <<"y","e","s","t","e","r","d","a","y"," ","o","r"," ","t","h","i","s"," ","w","e","e","k">>

Queries ==
    {Q_all_windows, Q_yesterday_week, Q_hi, Q_hello_ji, Q_spent50, Q_ok, Q_help_loan, Q_mudra, Q_tea, Q_tea_today, Q_yesterday, Q_week, Q_food, Q_budget, Q_more}

(***************************************************************************)
(* str.lower(), str.strip(), str.startswith() and the `in` substring test. *)
(***************************************************************************)
LowerChar(c) ==
    CASE c = "H" -> "h"
      [] c = "S" -> "s"
      [] c = "F" -> "f"
      [] OTHER -> c

lower(s) ==
    [i \in 1..Len(s) |-> LowerChar(s[i])]

RECURSIVE lstrip(_)
lstrip(s) ==
    IF s # <<>> /\ Head(s) = " " THEN lstrip(Tail(s)) ELSE s

RECURSIVE rstrip(_)
rstrip(s) ==
    IF s # <<>> /\ s[Len(s)] = " " THEN rstrip(SubSeq(s, 1, Len(s) - 1)) ELSE s

strip(s) ==
    rstrip(lstrip(s))

startswith(s, p) ==
    Len(p) <= Len(s) /\ SubSeq(s, 1, Len(p)) = p

contains(s, p) ==
    \E i \in 0..(Len(s) - Len(p)) : SubSeq(s, i + 1, i + Len(p)) = p

any_kw(s, kws) ==
    \E k \in 1..Len(kws) : contains(s, kws[k])

_is_greeting(query) ==
    LET query_lower == strip(lower(query)) IN
    \/ \E g \in 1..Len(greetings) : query_lower = greetings[g]
    \/ \E g \in 1..Len(greetings) : startswith(query_lower, greetings[g])
    \/ Len(query_lower) <= 10 /\ ~contains(query_lower, <<"?">>)

\* _is_greeting tabulated once over the sample texts
GreetingTable ==
    [q \in Queries |-> _is_greeting(q)]


(***************************************************************************)
(* Python list slices s[-4:] and s[:-4].                                   *)
(***************************************************************************)
\* s[-5:]
last5(s) ==
    IF Len(s) <= 5 THEN s ELSE SubSeq(s, Len(s) - 4, Len(s))

last4(s) ==
    IF Len(s) <= 4 THEN s ELSE SubSeq(s, Len(s) - 3, Len(s))

\* the whole session handed to the archive, the 4 newest messages included
archive_whole_session(s) ==
    s

drop_last4(s) ==
    IF Len(s) <= 4 THEN <<>> ELSE SubSeq(s, 1, Len(s) - 4)

Users ==
    {"u1", "u2"}

VARIABLES
    sessions,              \* run_agent.sessions: user_id -> [session, memory]
    chat_memory_store,     \* chunks handed to add_to_vectordb, oldest first
    transactions,          \* Transaction nodes of the finance graph
    budgets,               \* Budget nodes of the finance graph
    _finance_db_instance,  \* the FinanceDB singleton, <<>> while None
    today,                 \* the current day (datetime.now())
    clock,                 \* number of calls started so far
    req,                   \* the request and its classification
    obs,                   \* what the handler of the last call did
    result,                \* what the last call returned, or that it raised
    set_budget_calls,      \* every FinanceDB.set_budget call so far, in order
    heap,                  \* the dict and list objects behind `sessions`
    threads,               \* threadpool workers inside run_agent
    analysis,              \* the last scam analysis and what it was made from
    startup                \* how far app/main.py lifespan has got

vars ==
    <<sessions, chat_memory_store, transactions, budgets,
      _finance_db_instance, today, clock, req, obs, result,
      set_budget_calls, heap, threads, analysis, startup>>

(***************************************************************************)
(* Results.  A call either returns an envelope or raises.                  *)
(***************************************************************************)
NoAnswer ==
    [kind |-> "", total |-> 0]

Answer(kind) ==
    [kind |-> kind, total |-> 0]

Envelope(answer, type) ==
    [status |-> "returned", answer |-> answer, type |-> type,
     transaction |-> <<>>, alert |-> <<>>]

Raised(exc) ==
    [status |-> "raised", answer |-> Answer(exc), type |-> "",
     transaction |-> <<>>, alert |-> <<>>]

NoResult ==
    [status |-> "none", answer |-> NoAnswer, type |-> "",
     transaction |-> <<>>, alert |-> <<>>]

NoReq ==
    [query |-> <<>>, user_id |-> "", category |-> "", confidence |-> 0,
     classifier_failed |-> FALSE, attempts |-> 0]

\* no message has been analysed yet
NoAnalysis ==
    [detector |-> "", message |-> <<>>]

\* the lifespan has reached `yield` with every service initialised
\* the process after a startup that reached `yield`
Serving ==
    [phase |-> "serving", missing |-> {}, env_checked |-> TRUE,
     services |-> {}, cause |-> ""]

NoObs ==
    [handler |-> "", user_id |-> "", turn |-> 0, branch |-> "",
     graph_ok |-> TRUE, archived |-> FALSE, before |-> <<>>,
     connected |-> TRUE, kg_failed |-> FALSE, parsed |-> <<>>,
     stored |-> FALSE, query |-> <<>>, messages |-> <<>>]

(***************************************************************************)
(* llm/run_agent.py                                                        *)
(***************************************************************************)
InitialMemory ==
    <<>>

\* `if len(session) > 10`
ArchiveThreshold ==
    10

HumanMessage(turn) ==
    [type |-> "human", turn |-> turn, content |-> "query"]

AIMessage(turn, content) ==
    [type |-> "ai", turn |-> turn, content |-> content]

get_session(s, user_id) ==
    IF user_id \in DOMAIN s
    THEN s
    ELSE (user_id :> [session |-> <<>>, memory |-> InitialMemory]) @@ s

\* update_summary returns the LLM's new summary, or old_memory when the
\* LLM call fails; a summary is the tuple of turns at which it was rewritten.
update_summary(old_memory, turn, summary_ok) ==
    IF summary_ok THEN Append(old_memory, turn) ELSE old_memory

\* the whole stored session handed to the graph
input_messages_whole_session(session, turn) ==
    session \o <<HumanMessage(turn)>>

\* input_state["messages"]: active_history + [HumanMessage(user_input)],
\* with active_history = session[-4:]
input_messages(session, turn) ==
    last4(session) \o <<HumanMessage(turn)>>

\* One whole run_agent call.  graph_ok: app.invoke returned; archive_ok:
\* add_to_vectordb returned; summary_ok: the summary LLM call returned.
\* session.append works on the list held in the map, so the appended turn
\* is stored before the archive step runs.  When app.invoke raised, `res`
\* is unbound at the return statement and the call ends in a NameError.
run_agent(user_id, graph_ok, archive_ok, summary_ok) ==
    LET turn == clock + 1
        s0 == get_session(sessions, user_id)
        session_data == s0[user_id]
        memory_summary == session_data.memory
        answer == IF graph_ok THEN "answer" ELSE "apology"
        session == session_data.session
                      \o <<HumanMessage(turn), AIMessage(turn, answer)>>
        o == [NoObs EXCEPT !.handler = "run_agent", !.user_id = user_id,
                           !.turn = turn, !.graph_ok = graph_ok,
                           !.before = session_data.session,
                           !.messages =
                               input_messages(session_data.session, turn)]
        ret == IF graph_ok
               THEN Envelope(Answer(answer), "schemes")
               ELSE Raised("UnboundLocalError")
    IN
    /\ UNCHANGED <<transactions, budgets, _finance_db_instance, today>>
    /\ IF Len(session) > ArchiveThreshold
       THEN IF archive_ok
            THEN /\ chat_memory_store' =
                       Append(chat_memory_store,
                              [session_id |-> user_id,
                               messages |-> drop_last4(session)])
                 /\ sessions' =
                       [s0 EXCEPT ![user_id] =
                           [session |-> last4(session),
                            memory |-> update_summary(memory_summary, turn,
                                                      summary_ok)]]
                 /\ obs' = [o EXCEPT !.archived = TRUE]
                 /\ result' = ret
            ELSE /\ chat_memory_store' = chat_memory_store
                 /\ sessions' = [s0 EXCEPT ![user_id].session = session]
                 /\ obs' = o
                 /\ result' = Raised("add_to_vectordb")
       ELSE /\ chat_memory_store' = chat_memory_store
            /\ sessions' = [s0 EXCEPT ![user_id].session = session]
            /\ obs' = o
            /\ result' = ret

(***************************************************************************)
(* Calendar.  A date is a day number; months are MonthLen days long.       *)
(***************************************************************************)
MonthLen ==
    3

FirstDay ==
    10

start_of_month(day) ==
    day - ((day - 1) % MonthLen)

\* A date string as the extraction LLM writes it: "YYYY-MM-DD" (ymd), an
\* ISO timestamp containing "T" (iso), or text strptime rejects (bad).
Ymd(day) ==
    [fmt |-> "ymd", day |-> day]

BadDate ==
    [fmt |-> "bad", day |-> 0]

(***************************************************************************)
(* Categories are text, so that category.lower() is computed.              *)
(***************************************************************************)
food ==
    <<"f","o","o","d">>

Food ==
    <<"F","o","o","d">>

other ==
    <<"o","t","h","e","r">>

\* a category outside the list the prompts name
travel ==
    <<"t","r","a","v","e","l">>

\* dict.get(key, default): the default only replaces a missing key
get(d, k, default) ==
    IF k \in DOMAIN d THEN d[k] ELSE default

RECURSIVE SumOver(_, _)
SumOver(s, field) ==
    IF s = <<>> THEN 0 ELSE Head(s)[field] + SumOver(Tail(s), field)

\* Cypher COALESCE(t.category, 'other')
coalesce_category(c) ==
    IF c = <<>> THEN other ELSE c[1]

(***************************************************************************)
(* smart_budget_manager/transaction_parser.py                              *)
(***************************************************************************)
\* llm_out: <<>> when the structured LLM call raised, else <<extract>>
parse_transaction(llm_out, now) ==
    IF llm_out = <<>>
    THEN <<>>
    ELSE IF llm_out[1].date = <<>>
         THEN <<[llm_out[1] EXCEPT !.date = <<Ymd(now)>>]>>
         ELSE llm_out

(***************************************************************************)
(* db_/neo4j_finance.py                                                    *)
(***************************************************************************)
transaction_date(transaction, now) ==
    LET d == get(transaction, "date", <<>>) IN
    IF d = <<>> THEN now
    ELSE IF d[1].fmt = "bad" THEN now
    ELSE d[1].day

\* The Transaction node add_transaction creates.  MADE_TRANSACTION always
\* links it to the User node of user_id, so user_id stands for that edge.
TransactionNode(txs, user_id, transaction, now) ==
    [id |-> Len(txs) + 1,
     user_id |-> user_id,
     amount |-> transaction["amount"],
     category |-> get(transaction, "category", <<other>>),
     description |-> transaction["description"],
     type |-> get(transaction, "type", "expense"),
     payment_mode |-> get(transaction, "payment_mode", <<"unknown">>),
     date |-> transaction_date(transaction, now)]

\* reports success without creating the node
add_transaction_no_create(txs, user_id, transaction, now, query_ok) ==
    [ok |-> query_ok, transactions |-> txs]

\* add_transaction: [ok, transactions]; a failed kg.query is caught and
\* reported as False
add_transaction(txs, user_id, transaction, now, query_ok) ==
    IF query_ok
    THEN [ok |-> TRUE,
          transactions |->
              Append(txs, TransactionNode(txs, user_id, transaction, now))]
    ELSE [ok |-> FALSE, transactions |-> txs]

\* CREATE in place of MERGE: every call adds a Budget node
set_budget_create_only(bs, user_id, category, monthly_limit, query_ok) ==
    IF query_ok
    THEN [ok |-> TRUE,
          budgets |-> Append(bs, [user_id |-> user_id,
                                  category |-> lower(category),
                                  monthly_limit |-> monthly_limit])]
    ELSE [ok |-> FALSE, budgets |-> bs]

\* set_budget: MERGE on (user_id, category.lower()), then SET the limit
set_budget(bs, user_id, category, monthly_limit, query_ok) ==
    LET key == lower(category)
        matches(b) == b.user_id = user_id /\ b.category = key
    IN
    IF ~query_ok
    THEN [ok |-> FALSE, budgets |-> bs]
    ELSE [ok |-> TRUE,
          budgets |->
              IF \E i \in 1..Len(bs) : matches(bs[i])
              THEN [i \in 1..Len(bs) |->
                       IF matches(bs[i])
                       THEN [bs[i] EXCEPT !.monthly_limit = monthly_limit]
                       ELSE bs[i]]
              ELSE Append(bs, [user_id |-> user_id,
                               category |-> key,
                               monthly_limit |-> monthly_limit])]

(***************************************************************************)
(* smart_budget_manager/spending_analyser.py                               *)
(*                                                                         *)
(* usage_percent = spent / monthly_limit * 100 is held as the fraction     *)
(* num/den, so comparisons with the cutoffs are exact; den = 0 is the      *)
(* float division by zero of Cypher (Infinity, or NaN for 0/0).            *)
(***************************************************************************)
usage_ge(usage, k) ==
    IF usage.den > 0 THEN usage.num >= k * usage.den
    ELSE IF usage.den < 0 THEN usage.num <= k * usage.den
    ELSE usage.num > 0

usage_is_nan(usage) ==
    usage.den = 0 /\ usage.num = 0

\* a sorts before b under ORDER BY usage_percent DESC (NaN sorts highest)
usage_before(a, b) ==
    IF usage_is_nan(a.usage_percent) THEN ~usage_is_nan(b.usage_percent)
    ELSE IF usage_is_nan(b.usage_percent) THEN FALSE
    ELSE IF b.usage_percent.den = 0
         THEN b.usage_percent.num < 0 /\ ~(a.usage_percent.den = 0
                                           /\ a.usage_percent.num < 0)
    ELSE IF a.usage_percent.den = 0 THEN a.usage_percent.num > 0
    ELSE LET sa == IF a.usage_percent.den > 0 THEN 1 ELSE -1
             sb == IF b.usage_percent.den > 0 THEN 1 ELSE -1
         IN sa * a.usage_percent.num * sb * b.usage_percent.den
              > sb * b.usage_percent.num * sa * a.usage_percent.den

\* the MADE_TRANSACTION edge left out of the match: expenses of every user
spent_on_all_users(txs, user_id, category) ==
    SumOver(SelectSeq(txs, LAMBDA t : /\ t.category = <<category>>
                                      /\ t.type = "expense"),
            "amount")

spent_on(txs, user_id, category) ==
    SumOver(SelectSeq(txs, LAMBDA t : /\ t.user_id = user_id
                                      /\ t.category = <<category>>
                                      /\ t.type = "expense"),
            "amount")

check_budget_status(txs, bs, user_id, query_ok) ==
    IF ~query_ok
    THEN <<>>
    ELSE LET mine == SelectSeq(bs, LAMBDA b : b.user_id = user_id)
             row(b) == [category |-> b.category,
                        budget |-> b.monthly_limit,
                        spent |-> spent_on(txs, user_id, b.category),
                        usage_percent |->
                            [num |-> spent_on(txs, user_id, b.category) * 100,
                             den |-> b.monthly_limit]]
         IN SortSeq([i \in 1..Len(mine) |-> row(mine[i])], usage_before)

\* expense transactions of user_id dated from..to, newest first
expenses_between(txs, user_id, from, to) ==
    SortSeq(SelectSeq(txs, LAMBDA t : /\ t.user_id = user_id
                                      /\ t.type = "expense"
                                      /\ t.date >= from
                                      /\ t.date <= to),
            LAMBDA a, b : a.date > b.date)

\* WITH COALESCE(t.category,'other') ... sum(amount), count(amount)
\* ORDER BY total_spent DESC
by_category(selected) ==
    LET cats == {coalesce_category(selected[i].category) :
                    i \in 1..Len(selected)}
        of(c) == SelectSeq(selected,
                           LAMBDA t : coalesce_category(t.category) = c)
        rowset == {[category |-> c,
                    total_spent |-> SumOver(of(c), "amount"),
                    transaction_count |-> Len(of(c))] : c \in cats}
        RECURSIVE asSeq(_)
        asSeq(S) == IF S = {} THEN <<>>
                    ELSE LET r == CHOOSE r \in S : TRUE
                         IN <<r>> \o asSeq(S \ {r})
    IN SortSeq(asSeq(rowset), LAMBDA a, b : a.total_spent > b.total_spent)

get_daily_spending(txs, user_id, date, query_ok) ==
    IF query_ok THEN expenses_between(txs, user_id, date, date) ELSE <<>>

get_daily_summary(txs, user_id, date, query_ok) ==
    LET res == IF query_ok
               THEN by_category(expenses_between(txs, user_id, date, date))
               ELSE <<>>
    IN [date |-> date,
        total |-> SumOver(res, "total_spent"),
        by_category |-> res,
        transaction_count |-> SumOver(res, "transaction_count")]

get_date_range_spending(txs, user_id, start_date, end_date, query_ok) ==
    IF query_ok
    THEN expenses_between(txs, user_id, start_date, end_date)
    ELSE <<>>

\* category: <<>> for None; the debug query and the report query both run
\* inside the one try block
get_monthly_spending(txs, user_id, category, now, debug_ok, query_ok) ==
    IF debug_ok /\ query_ok
    THEN by_category(
             SelectSeq(expenses_between(txs, user_id,
                                        start_of_month(now), now),
                       LAMBDA t : category = <<>> \/ t.category = category))
    ELSE <<>>

(***************************************************************************)
(* smart_budget_manager/alert_generator.py                                 *)
(***************************************************************************)
\* the three tests in rising order: the first one that holds wins
RECURSIVE alerts_lowest_first(_)
alerts_lowest_first(budget_status) ==
    IF budget_status = <<>> THEN <<>>
    ELSE LET item == Head(budget_status)
             usage == item.usage_percent
             rest == alerts_lowest_first(Tail(budget_status))
         IN IF usage_ge(usage, 75)
            THEN <<[tier |-> "info", category |-> item.category]>> \o rest
            ELSE IF usage_ge(usage, 90)
            THEN <<[tier |-> "WARNING", category |-> item.category]>> \o rest
            ELSE IF usage_ge(usage, 100)
            THEN <<[tier |-> "BUDGET EXCEEDED", category |-> item.category]>>
                    \o rest
            ELSE rest

RECURSIVE alerts_of(_)
alerts_of(budget_status) ==
    IF budget_status = <<>> THEN <<>>
    ELSE LET item == Head(budget_status)
             usage == item.usage_percent
             rest == alerts_of(Tail(budget_status))
         IN IF usage_ge(usage, 100)
            THEN <<[tier |-> "BUDGET EXCEEDED", category |-> item.category]>>
                    \o rest
            ELSE IF usage_ge(usage, 90)
            THEN <<[tier |-> "WARNING", category |-> item.category]>> \o rest
            ELSE IF usage_ge(usage, 75)
            THEN <<[tier |-> "info", category |-> item.category]>> \o rest
            ELSE rest

\* the 75% tier left out
generate_alert_from_90(budget_status) ==
    LET alerts == SelectSeq(alerts_of(budget_status),
                            LAMBDA a : a.tier # "info")
    IN IF alerts # <<>> THEN <<alerts>> ELSE <<>>

\* <<>> is None; otherwise the alerts joined in list order
generate_alert(budget_status) ==
    IF alerts_of(budget_status) # <<>>
    THEN <<alerts_of(budget_status)>>
    ELSE <<>>

(***************************************************************************)
(* What the structured-output LLM calls can hand back.                     *)
(***************************************************************************)
Extract(amount, category, type, date) ==
    [amount |-> amount, category |-> category, description |-> "tea",
     type |-> type, payment_mode |-> <<>>, date |-> date]

\* <<>>: the call raised (or the output failed validation)
LLMTransactionOutputs(now) ==
    { <<>>,
      <<Extract(0, <<food>>, "expense", <<>>)>>,
      <<Extract(-5, <<>>, "expense", <<>>)>>,
      <<Extract(50, <<food>>, "expense", <<>>)>>,
      <<Extract(80, <<food>>, "expense", <<Ymd(now - 1)>>)>>,
      <<Extract(50, <<>>, "expense", <<BadDate>>)>>,
      <<Extract(80, <<other>>, "income", <<>>)>> }

LLMBudgetOutputs ==
    { <<>>,
      <<[category |-> food, limit |-> 100]>>,
      <<[category |-> Food, limit |-> 200]>>,
      <<[category |-> other, limit |-> 100]>>,
      <<[category |-> food, limit |-> 0]>>,
      <<[category |-> travel, limit |-> 100]>> }

(***************************************************************************)
(* get_finance_db: the lazily built singleton.  FinanceDB(None) opens the  *)
(* Neo4j connection and raises when the database cannot be reached.        *)
(***************************************************************************)
FinanceDBInstance ==
    <<"FinanceDB">>

ConnectOutcomes ==
    IF _finance_db_instance = <<>> THEN BOOLEAN ELSE {TRUE}

(***************************************************************************)
(* agent/finance_agent.py: finance_transaction_handler                     *)
(***************************************************************************)
\* the yesterday rule tried before the today rule
finance_branch_yesterday_first(query_lower) ==
    IF any_kw(query_lower, YesterdayKeywords) THEN "yesterday"
    ELSE IF any_kw(query_lower, TodayKeywords) THEN "today"
    ELSE IF any_kw(query_lower, WeekKeywords) THEN "week"
    ELSE IF any_kw(query_lower, SpendingKeywords) THEN "monthly"
    ELSE IF any_kw(query_lower, TransactionKeywords) THEN "transaction"
    ELSE "help"

finance_branch(query_lower) ==
    IF any_kw(query_lower, TodayKeywords) THEN "today"
    ELSE IF any_kw(query_lower, YesterdayKeywords) THEN "yesterday"
    ELSE IF any_kw(query_lower, WeekKeywords) THEN "week"
    ELSE IF any_kw(query_lower, SpendingKeywords) THEN "monthly"
    ELSE IF any_kw(query_lower, TransactionKeywords) THEN "transaction"
    ELSE "help"

\* finance_branch tabulated once over the sample texts
BranchTable ==
    [q \in Queries |-> finance_branch(lower(q))]

\* first category of the fixed list found in the text, <<>> when none is
report_category(query_lower) ==
    IF \E i \in 1..Len(ReportCategories) :
           contains(query_lower, ReportCategories[i])
    THEN LET i == CHOOSE i \in 1..Len(ReportCategories) :
                     /\ contains(query_lower, ReportCategories[i])
                     /\ \A j \in 1..(i - 1) :
                            ~contains(query_lower, ReportCategories[j])
         IN <<ReportCategories[i]>>
    ELSE <<>>

ReportCategoryTable ==
    [q \in Queries |-> report_category(lower(q))]

daily_answer(user_id, date, none_kind, report_kind, ok1, ok2) ==
    LET summary == get_daily_summary(transactions, user_id, date, ok1)
        listed == get_daily_spending(transactions, user_id, date, ok2)
    IN IF summary.total = 0
       THEN Answer(none_kind)
       ELSE [kind |-> report_kind, total |-> summary.total]

\* start_date is now - 7 days, a time of day later than midnight, and the
\* stored dates are midnights: the oldest day inside the window is today - 6
weekly_answer(user_id, ok) ==
    LET listed == get_date_range_spending(transactions, user_id,
                                          today - 6, today, ok)
    IN IF listed = <<>>
       THEN Answer("No transactions in the last 7 days.")
       ELSE [kind |-> "Last 7 Days Spending",
             total |-> SumOver(listed, "amount")]

monthly_answer(user_id, query, ok1, ok2, ok3) ==
    LET spending_data == get_monthly_spending(transactions, user_id,
                             ReportCategoryTable[query], today, ok1, ok2)
        budget_status == check_budget_status(transactions, budgets,
                                             user_id, ok3)
    IN IF spending_data = <<>>
       THEN Answer("You haven't logged any transactions yet this month.")
       ELSE [kind |-> "Spending Summary",
             total |-> SumOver(spending_data, "total_spent")]

\* amounts of zero are accepted
valid_transaction_non_negative(transaction) ==
    transaction # <<>> /\ transaction[1].amount >= 0

\* `if transaction and transaction.amount > 0`
valid_transaction(transaction) ==
    transaction # <<>> /\ transaction[1].amount > 0

\* the spending report tagged like a logged transaction
Ret_spending_as_finance(caller, answer, transaction_data, alert_message) ==
    CASE caller \in {"handle_transaction_request", "handle_spending_query"} ->
           [Envelope(answer, "finance")
               EXCEPT !.transaction = transaction_data,
                      !.alert = alert_message]
      [] OTHER ->
           Envelope(answer, "budget_setup")

\* Ret(caller, answer, transaction_data, alert_message) is what the caller
\* in router.py builds from the returned state: handle_transaction_request
\* passes the transaction and the alert on, the other two only the answer.
Ret(caller, answer, transaction_data, alert_message) ==
    CASE caller = "handle_transaction_request" ->
           [Envelope(answer, "finance")
               EXCEPT !.transaction = transaction_data,
                      !.alert = alert_message]
      [] caller = "handle_spending_query" ->
           Envelope(answer, "spending_report")
      [] OTHER ->
           Envelope(answer, "budget_setup")

\* get_finance_db() at the top is outside every try block.
finance_transaction_handler(user_id, query, caller) ==
    LET branch == BranchTable[query]
        o == [NoObs EXCEPT !.handler = caller, !.user_id = user_id,
                           !.turn = clock + 1, !.branch = branch,
                           !.query = query]
    IN
    /\ UNCHANGED <<sessions, chat_memory_store, budgets, today>>
    /\ \E db_up \in ConnectOutcomes :
         IF ~db_up
         THEN /\ result' = Raised("Neo4jGraph")
              /\ obs' = [o EXCEPT !.connected = FALSE]
              /\ UNCHANGED <<transactions, _finance_db_instance>>
         ELSE
         /\ _finance_db_instance' = FinanceDBInstance
         /\ CASE branch = "today" ->
                 \E ok1, ok2 \in BOOLEAN :
                   /\ result' = Ret(caller, daily_answer(user_id, today,
                          "You haven't logged any transactions today yet.",
                          "Today's Spending Report", ok1, ok2), <<>>, <<>>)
                   /\ obs' = [o EXCEPT !.kg_failed = ~(ok1 /\ ok2)]
                   /\ UNCHANGED transactions
              [] branch = "yesterday" ->
                 \E ok1, ok2 \in BOOLEAN :
                   /\ result' = Ret(caller, daily_answer(user_id, today - 1,
                          "You didn't log any transactions yesterday.",
                          "Yesterday's Spending Report", ok1, ok2),
                          <<>>, <<>>)
                   /\ obs' = [o EXCEPT !.kg_failed = ~(ok1 /\ ok2)]
                   /\ UNCHANGED transactions
              [] branch = "week" ->
                 \E ok \in BOOLEAN :
                   /\ result' = Ret(caller, weekly_answer(user_id, ok), <<>>, <<>>)
                   /\ obs' = [o EXCEPT !.kg_failed = ~ok]
                   /\ UNCHANGED transactions
              [] branch = "monthly" ->
                 \E ok1, ok2, ok3 \in BOOLEAN :
                   /\ result' = Ret(caller, monthly_answer(user_id, query,
                                                   ok1, ok2, ok3),
                                    <<>>, <<>>)
                   /\ obs' = [o EXCEPT !.kg_failed = ~(ok1 /\ ok2 /\ ok3)]
                   /\ UNCHANGED transactions
              [] branch = "transaction" ->
                 \E llm_out \in LLMTransactionOutputs(today) :
                   LET transaction == parse_transaction(llm_out, today)
                       p == [o EXCEPT !.parsed = transaction]
                   IN
                   IF valid_transaction(transaction)
                   THEN \E write_ok \in BOOLEAN :
                        \E status_ok \in IF write_ok THEN BOOLEAN ELSE {TRUE} :
                          LET w == add_transaction(transactions, user_id,
                                       transaction[1], today, write_ok)
                              budget_status ==
                                  check_budget_status(w.transactions,
                                      budgets, user_id, status_ok)
                              alert == generate_alert(budget_status)
                          IN
                          /\ transactions' = w.transactions
                          /\ obs' = [p EXCEPT !.stored = w.ok,
                                       !.kg_failed = ~(write_ok /\ status_ok)]
                          /\ result' =
                               IF w.ok
                               THEN Ret(caller, Answer("Transaction logged"),
                                        transaction, alert)
                               ELSE Ret(caller, Answer("Failed to log transaction due to a database error."),
                                        <<>>, <<>>)
                   ELSE /\ result' = Ret(caller, Answer("I couldn't understand that as a transaction."),
                                         <<>>, <<>>)
                        /\ obs' = p
                        /\ UNCHANGED transactions
              [] OTHER ->
                   /\ result' = Ret(caller, Answer("I can help you track transactions or check your spending."),
                                    <<>>, <<>>)
                   /\ obs' = o
                   /\ UNCHANGED transactions

(***************************************************************************)
(* agent/finance_agent.py: handle_budget_setup.  The whole body after the  *)
(* prompt is inside one try block, get_finance_db() included.              *)
(***************************************************************************)
handle_budget_setup(user_id, caller) ==
    LET o == [NoObs EXCEPT !.handler = caller, !.user_id = user_id,
                           !.turn = clock + 1, !.branch = "budget"]
        not_understood ==
            Ret(caller, Answer("I couldn't understand that budget request."),
                <<>>, <<>>)
    IN
    /\ UNCHANGED <<sessions, chat_memory_store, transactions, today>>
    /\ \E budget_intent \in LLMBudgetOutputs :
         IF budget_intent = <<>>
         THEN /\ result' = not_understood
              /\ obs' = o
              /\ UNCHANGED <<budgets, _finance_db_instance, set_budget_calls>>
         ELSE \E db_up \in ConnectOutcomes :
                IF ~db_up
                THEN /\ result' = not_understood
                     /\ obs' = [o EXCEPT !.connected = FALSE,
                                         !.parsed = budget_intent]
                     /\ UNCHANGED <<budgets, _finance_db_instance,
                                    set_budget_calls>>
                ELSE \E query_ok \in BOOLEAN :
                       LET w == set_budget(budgets, user_id,
                                           budget_intent[1].category,
                                           budget_intent[1].limit, query_ok)
                       IN
                       /\ _finance_db_instance' = FinanceDBInstance
                       /\ budgets' = w.budgets
                       /\ set_budget_calls' =
                            Append(set_budget_calls,
                                   [user_id |-> user_id,
                                    category |-> budget_intent[1].category,
                                    monthly_limit |-> budget_intent[1].limit,
                                    ok |-> w.ok])
                       /\ obs' = [o EXCEPT !.parsed = budget_intent,
                                           !.stored = w.ok,
                                           !.kg_failed = ~query_ok]
                       /\ result' =
                            IF w.ok
                            THEN Ret(caller, Answer("Budget set successfully!"),
                                     <<>>, <<>>)
                            ELSE Ret(caller, Answer("Failed to set budget due to a database error."),
                                     <<>>, <<>>)

(***************************************************************************)
(* feature_router/router.py: the handlers                                  *)
(***************************************************************************)
handle_transaction_request(query, user_id) ==
    /\ finance_transaction_handler(user_id, query,
                                   "handle_transaction_request")
    /\ UNCHANGED set_budget_calls

handle_spending_query(query, user_id) ==
    /\ finance_transaction_handler(user_id, query, "handle_spending_query")
    /\ UNCHANGED set_budget_calls

handle_budget_request(query, user_id) ==
    handle_budget_setup(user_id, "handle_budget_request")

\* the greeting kept as a turn of the user's session
handle_greeting_with_session(query, user_id) ==
    /\ UNCHANGED <<chat_memory_store, transactions, budgets,
                   today, set_budget_calls>>
    /\ sessions' =
          [get_session(sessions, user_id) EXCEPT ![user_id].session =
              get_session(sessions, user_id)[user_id].session
                 \o <<HumanMessage(clock + 1),
                      AIMessage(clock + 1, "greeting")>>]
    /\ \E db_up \in ConnectOutcomes :
         /\ _finance_db_instance' =
               IF db_up THEN FinanceDBInstance ELSE _finance_db_instance
         /\ obs' = [NoObs EXCEPT !.handler = "handle_greeting",
                                 !.user_id = user_id, !.turn = clock + 1,
                                 !.connected = db_up]
    /\ result' = Envelope(Answer("greeting"), "greeting")

\* The greeting reads the month's spending inside a bare try/except; the
\* only state it can change is the finance singleton.
handle_greeting(query, user_id) ==
    /\ UNCHANGED <<sessions, chat_memory_store, transactions, budgets,
                   today, set_budget_calls>>
    /\ \E db_up \in ConnectOutcomes :
         /\ _finance_db_instance' =
               IF db_up THEN FinanceDBInstance ELSE _finance_db_instance
         /\ obs' = [NoObs EXCEPT !.handler = "handle_greeting",
                                 !.user_id = user_id, !.turn = clock + 1,
                                 !.connected = db_up]
    /\ result' = Envelope(Answer("greeting"), "greeting")

\* Handlers whose collaborators (scam detector, concept explainer, Gmail)
\* keep no state of the finance store or the sessions.  Outcomes: the type
\* returned by the try block and, where there is one, by the except branch.
stateless_handler(name, user_id, Outcomes) ==
    /\ UNCHANGED <<sessions, chat_memory_store, transactions, budgets,
                   today, set_budget_calls, _finance_db_instance>>
    /\ obs' = [NoObs EXCEPT !.handler = name, !.user_id = user_id,
                            !.turn = clock + 1]
    /\ \E type \in Outcomes : result' = Envelope(Answer(type), type)

handle_scam_analysis(query, user_id) ==
    stateless_handler("handle_scam_analysis", user_id,
                      {"scam_analysis", "scam_analysis_error"})

handle_scam_education(query) ==
    stateless_handler("handle_scam_education", "",
                      {"scam_education"})

handle_concept_explanation_request(query, user_id) ==
    /\ UNCHANGED <<sessions, chat_memory_store, transactions, budgets,
                   today, set_budget_calls>>
    /\ \E db_up \in ConnectOutcomes :
         /\ _finance_db_instance' =
               IF db_up THEN FinanceDBInstance ELSE _finance_db_instance
         /\ obs' = [NoObs EXCEPT
                       !.handler = "handle_concept_explanation_request",
                       !.user_id = user_id, !.turn = clock + 1,
                       !.connected = db_up]
    /\ \E type \in {"concept_explanation", "concept_explanation_error"} :
         result' = Envelope(Answer(type), type)

handle_email_scam_request(query, user_id) ==
    stateless_handler("handle_email_scam_request", user_id,
                      {"email_scam_check"})

handle_email_payment_request(query, user_id) ==
    stateless_handler("handle_email_payment_request", user_id,
                      {"email_payment_extraction"})

(***************************************************************************)
(* feature_router/router.py: classify_query and router_feature             *)
(***************************************************************************)
Categories ==
    {"government_schemes", "transaction_logging", "spending_query",
     "budget_setup", "scam_detection", "scam_analysis",
     "concept_explanation", "email_scam_check", "email_payment_extraction",
     "general_conversation"}

Confidences ==
    {50, 60}

\* <<>>: classifier_chain.invoke raised
LLMClassifications ==
    {<<>>} \cup {<<[category |-> c, confidence |-> k]>> :
                    c \in Categories, k \in Confidences}

\* a failed call is made once more and the second call answers
classify_query_retry(llm_out) ==
    IF llm_out = <<>>
    THEN [category |-> "government_schemes", confidence |-> 60,
          failed |-> TRUE, attempts |-> 2]
    ELSE [category |-> llm_out[1].category,
          confidence |-> llm_out[1].confidence, failed |-> FALSE,
          attempts |-> 1]

\* attempts: the number of classifier_chain.invoke calls made
classify_query(llm_out) ==
    IF llm_out = <<>>
    THEN [category |-> "general_conversation", confidence |-> 50,
          failed |-> TRUE, attempts |-> 1]
    ELSE [category |-> llm_out[1].category,
          confidence |-> llm_out[1].confidence, failed |-> FALSE,
          attempts |-> 1]

run_agent_call(user_id) ==
    /\ \E graph_ok, archive_ok, summary_ok \in BOOLEAN :
         run_agent(user_id, graph_ok, archive_ok, summary_ok)
    /\ UNCHANGED set_budget_calls

\* the greeting heuristic is looked at after the low-confidence test
general_conversation_confidence_first(query, user_id, classification) ==
    IF classification.confidence < 60
    THEN run_agent_call(user_id)
    ELSE handle_greeting(query, user_id)

\* every query that is not a greeting sent to run_agent, whatever the
\* confidence
general_conversation_schemes_default(query, user_id, classification) ==
    IF GreetingTable[query]
    THEN handle_greeting(query, user_id)
    ELSE run_agent_call(user_id)

\* the else branch of router_feature: general_conversation
general_conversation(query, user_id, classification) ==
    IF GreetingTable[query]
    THEN handle_greeting(query, user_id)
    ELSE IF classification.confidence < 60
    THEN run_agent_call(user_id)
    ELSE handle_greeting(query, user_id)

router_feature(query, user_id, llm_out) ==
    LET classification == classify_query(llm_out) IN
    /\ req' = [query |-> query, user_id |-> user_id,
               category |-> classification.category,
               confidence |-> classification.confidence,
               classifier_failed |-> classification.failed,
               attempts |-> classification.attempts]
    /\ clock' = clock + 1
    /\ CASE classification.category = "government_schemes" ->
              run_agent_call(user_id)
         [] classification.category = "transaction_logging" ->
              handle_transaction_request(query, user_id)
         [] classification.category = "spending_query" ->
              handle_spending_query(query, user_id)
         [] classification.category = "budget_setup" ->
              handle_budget_request(query, user_id)
         [] classification.category = "scam_analysis" ->
              handle_scam_analysis(query, user_id)
         [] classification.category = "scam_detection" ->
              handle_scam_education(query)
         [] classification.category = "concept_explanation" ->
              handle_concept_explanation_request(query, user_id)
         [] classification.category = "email_scam_check" ->
              handle_email_scam_request(query, user_id)
         [] classification.category = "email_payment_extraction" ->
              handle_email_payment_request(query, user_id)
         [] OTHER ->
              general_conversation(query, user_id, classification)

(***************************************************************************)
(* llm/run_agent.py under overlapping requests.  POST /query is a plain    *)
(* `def` endpoint, so each request runs on a threadpool worker and the     *)
(* statements of run_agent interleave.  `sessions` maps a user_id to a     *)
(* dict object whose "session" entry refers to a list object; workers hold *)
(* references to both, so the objects are kept in a heap by address.       *)
(***************************************************************************)
NumThreads ==
    2

Threads ==
    1..NumThreads

EmptyHeap ==
    [root |-> <<>>, dicts |-> <<>>, lists |-> <<>>]

IdleThread ==
    [pc |-> "idle", user_id |-> "", turn |-> 0, session_data |-> 0,
     session |-> 0, memory_summary |-> <<>>, overlapped |-> FALSE,
     status |-> "none"]

\* the map as the sequential reading sees it: user_id -> [session, memory]
SessionsOf(h) ==
    [u \in DOMAIN h.root |->
        [session |-> h.lists[h.dicts[h.root[u]].session],
         memory |-> h.dicts[h.root[u]].memory]]

InCall(t) ==
    threads[t].pc \notin {"idle", "done"}

\* the call is over and its locals are gone
Done(t, status) ==
    [IdleThread EXCEPT !.pc = "done", !.user_id = threads[t].user_id,
                       !.turn = threads[t].turn,
                       !.overlapped = threads[t].overlapped,
                       !.status = status]

ConcFrame ==
    UNCHANGED <<transactions, budgets, _finance_db_instance, today, req,
                obs, result, set_budget_calls, analysis, startup>>

\* one statement of worker t: its new locals, the new heap, the new archive
Statement(t, locals, h, store) ==
    /\ threads' = [threads EXCEPT ![t] = locals]
    /\ heap' = h
    /\ sessions' = SessionsOf(h)
    /\ chat_memory_store' = store
    /\ clock' = clock
    /\ ConcFrame

\* the test is taken as true whatever the map holds
not_in_sessions_always(h, user_id) ==
    TRUE

\* line 12: `user_id not in sessions`
not_in_sessions(h, user_id) ==
    user_id \notin DOMAIN h.root

\* run_agent is entered; the calls of other workers for the same user that
\* are in progress overlap this one.  Workers are interchangeable, so they
\* take their requests in the order of their numbers.
call_run_agent(t) ==
    /\ threads[t].pc = "idle"
    /\ \A j \in Threads : j < t => threads[j].pc # "idle"
    /\ \E user_id \in Users :
         threads' =
           [k \in Threads |->
              IF k = t
              THEN [IdleThread EXCEPT
                      !.pc = "get_session_test", !.user_id = user_id,
                      !.turn = clock + 1,
                      !.overlapped =
                          \E j \in Threads \ {t} :
                             InCall(j) /\ threads[j].user_id = user_id]
              ELSE IF InCall(k) /\ threads[k].user_id = user_id
              THEN [threads[k] EXCEPT !.overlapped = TRUE]
              ELSE threads[k]]
    /\ clock' = clock + 1
    /\ UNCHANGED <<heap, sessions, chat_memory_store>>
    /\ ConcFrame

\* get_session, line 12
get_session_test(t) ==
    /\ threads[t].pc = "get_session_test"
    /\ Statement(t, [threads[t] EXCEPT !.pc =
                        IF not_in_sessions(heap, threads[t].user_id)
                        THEN "get_session_create"
                        ELSE "get_session_return"],
                 heap, chat_memory_store)

\* get_session, lines 13-16: a new dict with a new empty list
get_session_create(t) ==
    /\ threads[t].pc = "get_session_create"
    /\ LET list == Len(heap.lists) + 1
           dict == Len(heap.dicts) + 1
       IN Statement(t, [threads[t] EXCEPT !.pc = "get_session_return"],
                    [root |-> (threads[t].user_id :> dict) @@ heap.root,
                     dicts |-> Append(heap.dicts,
                                      [session |-> list,
                                       memory |-> InitialMemory]),
                     lists |-> Append(heap.lists, <<>>)],
                    chat_memory_store)

\* get_session, line 17, and run_agent, line 31
get_session_return(t) ==
    /\ threads[t].pc = "get_session_return"
    /\ Statement(t, [threads[t] EXCEPT
                        !.pc = "read_session",
                        !.session_data = heap.root[threads[t].user_id]],
                 heap, chat_memory_store)

\* line 32
read_session(t) ==
    /\ threads[t].pc = "read_session"
    /\ Statement(t, [threads[t] EXCEPT
                        !.pc = "invoke",
                        !.session =
                            heap.dicts[threads[t].session_data].session],
                 heap, chat_memory_store)

\* line 33, then lines 36-52 with the graph answering; nothing the graph is
\* given is written back.  (When the graph raises, the same statements
\* follow with the apology as the answer and the call ends in an error at
\* its return statement: run_agent above.)
invoke(t) ==
    /\ threads[t].pc = "invoke"
    /\ Statement(t, [threads[t] EXCEPT
                        !.pc = "append_human",
                        !.memory_summary =
                            heap.dicts[threads[t].session_data].memory],
                 heap, chat_memory_store)

\* line 58
append_human(t) ==
    /\ threads[t].pc = "append_human"
    /\ Statement(t, [threads[t] EXCEPT !.pc = "append_ai"],
                 [heap EXCEPT !.lists[threads[t].session] =
                     Append(@, HumanMessage(threads[t].turn))],
                 chat_memory_store)

\* line 59
append_ai(t) ==
    /\ threads[t].pc = "append_ai"
    /\ Statement(t, [threads[t] EXCEPT !.pc = "len_test"],
                 [heap EXCEPT !.lists[threads[t].session] =
                     Append(@, AIMessage(threads[t].turn, "answer"))],
                 chat_memory_store)

\* line 62
len_test(t) ==
    /\ threads[t].pc = "len_test"
    /\ Statement(t, [threads[t] EXCEPT !.pc =
                        IF Len(heap.lists[threads[t].session])
                              > ArchiveThreshold
                        THEN "archive" ELSE "keep_all"],
                 heap, chat_memory_store)

\* line 64: add_to_vectordb stores the chunk, or raises out of run_agent
archive(t) ==
    /\ threads[t].pc = "archive"
    /\ \E archive_ok \in BOOLEAN :
         IF archive_ok
         THEN Statement(t, [threads[t] EXCEPT !.pc = "update_summary"],
                        heap,
                        Append(chat_memory_store,
                               [session_id |-> threads[t].user_id,
                                messages |-> drop_last4(
                                    heap.lists[threads[t].session])]))
         ELSE Statement(t, Done(t, "raised"),
                        heap, chat_memory_store)

\* lines 67-68
store_summary(t) ==
    /\ threads[t].pc = "update_summary"
    /\ \E summary_ok \in BOOLEAN :
         LET memory_summary == update_summary(threads[t].memory_summary,
                                              threads[t].turn, summary_ok)
         IN Statement(t, [threads[t] EXCEPT
                             !.pc = "keep_recent",
                             !.memory_summary = memory_summary],
                      [heap EXCEPT !.dicts[threads[t].session_data].memory =
                          memory_summary],
                      chat_memory_store)

\* line 71: session[-4:] is a new list; then the return statement
keep_recent(t) ==
    /\ threads[t].pc = "keep_recent"
    /\ LET list == Len(heap.lists) + 1
       IN Statement(t, Done(t, "returned"),
                    [heap EXCEPT
                       !.lists = Append(@,
                                   last4(heap.lists[threads[t].session])),
                       !.dicts[threads[t].session_data].session = list],
                    chat_memory_store)

\* line 73; then the return statement
keep_all(t) ==
    /\ threads[t].pc = "keep_all"
    /\ Statement(t, Done(t, "returned"),
                 [heap EXCEPT !.dicts[threads[t].session_data].session =
                     threads[t].session],
                 chat_memory_store)

(***************************************************************************)
(* Specifications                                                          *)
(***************************************************************************)
MaxRequests ==
    1

MaxFinanceCalls ==
    2

MaxTurns ==
    7

\* After startup (app/main.py lifespan) the finance singleton exists unless
\* the database could not be reached, and the session map is empty.  The
\* finance graph outlives the process: it is empty, or holds what an
\* earlier run stored (one expense of u1 and u1's food budget).
PriorTransaction ==
    TransactionNode(<<>>, "u1", Extract(80, <<food>>, "expense", <<>>),
                    FirstDay)

PriorBudgetCall ==
    [user_id |-> "u1", category |-> food, monthly_limit |-> 100, ok |-> TRUE]

Init ==
    /\ sessions = <<>>
    /\ chat_memory_store = <<>>
    /\ \/ /\ transactions = <<>>
          /\ budgets = <<>>
          /\ set_budget_calls = <<>>
       \/ /\ transactions = <<PriorTransaction>>
          /\ budgets = set_budget(<<>>, "u1", food, 100, TRUE).budgets
          /\ set_budget_calls = <<PriorBudgetCall>>
    /\ _finance_db_instance \in {<<>>, FinanceDBInstance}
    /\ today = FirstDay
    /\ clock = 0
    /\ req = NoReq
    /\ obs = NoObs
    /\ result = NoResult
    /\ heap = EmptyHeap
    /\ threads = [t \in Threads |-> IdleThread]
    /\ analysis = NoAnalysis
    /\ startup = Serving

RouterQueries ==
    {Q_hi, Q_hello_ji, Q_spent50, Q_ok, Q_tea, Q_tea_today}

\* POST /query
Query ==
    /\ clock < MaxRequests
    /\ UNCHANGED <<heap, threads, analysis, startup>>
    /\ \E query \in RouterQueries, user_id \in Users,
          llm_out \in LLMClassifications :
         router_feature(query, user_id, llm_out)

Next ==
    Query

Spec ==
    Init /\ [][Next]_vars

\* The finance handlers called directly, as router.py calls them.
FinanceQueries ==
    {Q_tea, Q_tea_today, Q_week, Q_food, Q_more, Q_all_windows,
     Q_yesterday_week}

TransactionRequest ==
    /\ clock < MaxFinanceCalls
    /\ UNCHANGED <<heap, threads, analysis, startup>>
    /\ clock' = clock + 1
    /\ UNCHANGED req
    /\ \E query \in FinanceQueries, user_id \in Users :
         handle_transaction_request(query, user_id)

SpendingQuery ==
    /\ clock < MaxFinanceCalls
    /\ UNCHANGED <<heap, threads, analysis, startup>>
    /\ clock' = clock + 1
    /\ UNCHANGED req
    /\ \E query \in FinanceQueries, user_id \in Users :
         handle_spending_query(query, user_id)

BudgetRequest ==
    /\ clock < MaxFinanceCalls
    /\ UNCHANGED <<heap, threads, analysis, startup>>
    /\ clock' = clock + 1
    /\ UNCHANGED req
    /\ \E user_id \in Users : handle_budget_request(Q_budget, user_id)

NextFinance ==
    TransactionRequest \/ SpendingQuery \/ BudgetRequest

SpecFinance ==
    Init /\ [][NextFinance]_vars

\* run_agent called turn after turn, one call at a time.
RunAgent ==
    /\ clock < MaxTurns
    /\ UNCHANGED <<heap, threads, analysis, startup>>
    /\ clock' = clock + 1
    /\ UNCHANGED req
    /\ \E user_id \in Users : run_agent_call(user_id)

NextSession ==
    RunAgent

SpecSession ==
    Init /\ [][NextSession]_vars

\* Overlapping run_agent calls, one per worker.  u1 comes back with a
\* session as long as it can get without being archived; u2 has none yet.
PriorSession ==
    [i \in 1..ArchiveThreshold |->
        IF i % 2 = 1 THEN HumanMessage((i + 1) \div 2)
        ELSE AIMessage(i \div 2, "answer")]

PriorHeap ==
    [root |-> ("u1" :> 1),
     dicts |-> <<[session |-> 1, memory |-> InitialMemory]>>,
     lists |-> <<PriorSession>>]

InitConc ==
    /\ heap = PriorHeap
    /\ clock = ArchiveThreshold \div 2
    /\ sessions = SessionsOf(heap)
    /\ chat_memory_store = <<>>
    /\ transactions = <<>>
    /\ budgets = <<>>
    /\ set_budget_calls = <<>>
    /\ _finance_db_instance = FinanceDBInstance
    /\ today = FirstDay
    /\ req = NoReq
    /\ obs = NoObs
    /\ result = NoResult
    /\ threads = [t \in Threads |-> IdleThread]
    /\ analysis = NoAnalysis
    /\ startup = Serving

NextConc ==
    \E t \in Threads :
       \/ call_run_agent(t)
       \/ get_session_test(t)
       \/ get_session_create(t)
       \/ get_session_return(t)
       \/ read_session(t)
       \/ invoke(t)
       \/ append_human(t)
       \/ append_ai(t)
       \/ len_test(t)
       \/ archive(t)
       \/ store_summary(t)
       \/ keep_recent(t)
       \/ keep_all(t)

SpecConc ==
    InitConc /\ [][NextConc]_vars

\* AlertGenerator.generate_alert applied to budget-status lists: one row per
\* category, as check_budget_status returns them.
MaxAlertItems ==
    2

AlertCategories ==
    <<food, other, <<"b","i","l","l","s">>, <<"h","e","a","l","t","h">>>>

\* <<monthly_limit, spent>>: usage just under and at each cutoff, a usage
\* that is not a whole number (74.5), Infinity (50/0) and NaN (0/0)
UsageCases ==
    {<<100, 0>>, <<100, 74>>, <<100, 75>>, <<100, 89>>, <<100, 90>>,
     <<100, 99>>, <<100, 100>>, <<200, 149>>, <<200, 150>>, <<200, 200>>,
     <<200, 300>>, <<0, 50>>, <<0, 0>>}

StatusRow(category, budget, spent) ==
    [category |-> category, budget |-> budget, spent |-> spent,
     usage_percent |-> [num |-> spent * 100, den |-> budget]]

\* the lists of n rows over distinct categories
RECURSIVE StatusLists(_)
StatusLists(n) ==
    IF n = 0 THEN {<<>>}
    ELSE UNION {{Append(l, StatusRow(AlertCategories[c], u[1], u[2])) :
                    c \in {d \in 1..MaxAlertItems :
                             \A i \in 1..Len(l) :
                                l[i].category # AlertCategories[d]},
                    u \in UsageCases} :
                l \in StatusLists(n - 1)}

GenerateAlert ==
    /\ clock < 1
    /\ UNCHANGED <<heap, threads, analysis, startup>>
    /\ clock' = clock + 1
    /\ \E n \in 0..MaxAlertItems :
         \E budget_status \in StatusLists(n) :
           /\ obs' = [NoObs EXCEPT !.handler = "generate_alert",
                                   !.before = budget_status]
           /\ result' = [NoResult EXCEPT !.status = "returned",
                                         !.alert = generate_alert(budget_status)]
    /\ UNCHANGED <<sessions, chat_memory_store, transactions, budgets,
                   _finance_db_instance, today, req, set_budget_calls>>

NextAlert ==
    GenerateAlert

SpecAlert ==
    Init /\ [][NextAlert]_vars

(***************************************************************************)
(* scam_detector/scam_detector.py.  Confidences and scores are in          *)
(* ten-thousandths, so the 60/40 blend of two of them is a whole number.   *)
(***************************************************************************)
red_flag_keywords ==
    <<
      [category |-> "urgent",
       keywords |->
         <<<<"u", "r", "g", "e", "n", "t">>,
           <<"i", "m", "m", "e", "d", "i", "a", "t", "e", "l", "y">>,
           <<"e", "x", "p", "i", "r", "e">>,
           <<"l", "i", "m", "i", "t", "e", "d", " ", "t", "i", "m", "e">>,
           <<"a", "c", "t", " ", "n", "o", "w">>,
           <<"h", "u", "r", "r", "y">>>>],
      [category |-> "money_request",
       keywords |->
         <<<<"s", "e", "n", "d", " ", "m", "o", "n", "e", "y">>,
           <<"t", "r", "a", "n", "s", "f", "e", "r">>,
           <<"p", "a", "y", "m", "e", "n", "t", " ", "r", "e", "q", "u", "i", "r", "e", "d">>,
           <<"p", "a", "y", " ", "n", "o", "w">>,
           <<"d", "e", "p", "o", "s", "i", "t">>>>],
      [category |-> "personal_info",
       keywords |->
         <<<<"o", "t", "p">>,
           <<"p", "i", "n">>,
           <<"p", "a", "s", "s", "w", "o", "r", "d">>,
           <<"c", "v", "v">>,
           <<"c", "a", "r", "d", " ", "n", "u", "m", "b", "e", "r">>,
           <<"a", "c", "c", "o", "u", "n", "t", " ", "n", "u", "m", "b", "e", "r">>>>],
      [category |-> "threats",
       keywords |->
         <<<<"b", "l", "o", "c", "k">>,
           <<"s", "u", "s", "p", "e", "n", "d">>,
           <<"l", "e", "g", "a", "l", " ", "a", "c", "t", "i", "o", "n">>,
           <<"p", "o", "l", "i", "c", "e">>,
           <<"a", "r", "r", "e", "s", "t">>,
           <<"f", "i", "n", "e">>>>],
      [category |-> "prizes",
       keywords |->
         <<<<"w", "o", "n">>,
           <<"w", "i", "n", "n", "e", "r">>,
           <<"l", "o", "t", "t", "e", "r", "y">>,
           <<"p", "r", "i", "z", "e">>,
           <<"c", "o", "n", "g", "r", "a", "t", "u", "l", "a", "t", "i", "o", "n", "s">>,
           <<"s", "e", "l", "e", "c", "t", "e", "d">>>>],
      [category |-> "impersonation",
       keywords |->
         <<<<"b", "a", "n", "k">>,
           <<"g", "o", "v", "e", "r", "n", "m", "e", "n", "t">>,
           <<"i", "n", "c", "o", "m", "e", " ", "t", "a", "x">>,
           <<"p", "o", "l", "i", "c", "e">>,
           <<"c", "o", "u", "r", "i", "e", "r">>>>],
      [category |-> "suspicious_links",
       keywords |->
         <<<<"b", "i", "t", ".", "l", "y">>,
           <<"t", "i", "n", "y", "u", "r", "l">>,
           <<"c", "l", "i", "c", "k", " ", "h", "e", "r", "e">>,
           <<"v", "e", "r", "i", "f", "y", " ", "a", "c", "c", "o", "u", "n", "t">>,
           <<"u", "p", "d", "a", "t", "e", " ", "k", "y", "c">>>>]
    >>

\* "hello friend"
M_hello ==
    <<"h", "e", "l", "l", "o", " ", "f", "r", "i", "e", "n", "d">>

\* "you won"
M_won ==
    <<"y", "o", "u", " ", "w", "o", "n">>

\* "Hurry, urgent"
M_hurry ==
    <<"H", "u", "r", "r", "y", ",", " ", "u", "r", "g", "e", "n", "t">>

\* "police"
M_police ==
    <<"p", "o", "l", "i", "c", "e">>

\* "urgent: act now, hurry"
M_pressure ==
    <<"u", "r", "g", "e", "n", "t", ":", " ", "a", "c", "t", " ", "n", "o", "w", ",", " ", "h", "u", "r", "r", "y">>

\* "share otp, pin"
M_otp_pin ==
    <<"s", "h", "a", "r", "e", " ", "o", "t", "p", ",", " ", "p", "i", "n">>

\* "urgent otp bank won"
M_kyc ==
    <<"u", "r", "g", "e", "n", "t", " ", "o", "t", "p", " ", "b", "a", "n", "k", " ", "w", "o", "n">>

ScamMessages ==
    {M_hello, M_won, M_hurry, M_police, M_pressure, M_otp_pin, M_kyc}


\* the (category, keyword) pairs in the order the two loops visit them
RECURSIVE keyword_pairs(_)
keyword_pairs(rows) ==
    IF rows = <<>> THEN <<>>
    ELSE [k \in 1..Len(Head(rows).keywords) |->
             [category |-> Head(rows).category,
              keyword |-> Head(rows).keywords[k]]]
         \o keyword_pairs(Tail(rows))

\* one flag per keyword found, so a category can be flagged several times
_detect_red_flags(message) ==
    SelectSeq(keyword_pairs(red_flag_keywords),
              LAMBDA f : contains(lower(message), f.keyword))

RedFlagTable ==
    [m \in ScamMessages |-> _detect_red_flags(m)]

\* the flagged categories are counted, not the flags
_fallback_analysis_by_category(red_flags) ==
    LET flag_count == Cardinality({red_flags[i].category :
                                      i \in 1..Len(red_flags)})
    IN [is_scam |-> flag_count >= 1,
        risk_level |-> IF flag_count >= 4 THEN "CRITICAL"
                       ELSE IF flag_count >= 2 THEN "HIGH"
                       ELSE IF flag_count = 1 THEN "MEDIUM"
                       ELSE "LOW",
        confidence |-> IF flag_count >= 4 THEN 9000
                       ELSE IF flag_count >= 2 THEN 7500
                       ELSE IF flag_count = 1 THEN 5000
                       ELSE 3000,
        scam_type |-> "Unknown (LLM analysis failed)",
        red_flags |-> red_flags]

_fallback_analysis(red_flags) ==
    LET flag_count == Len(red_flags)
    IN [is_scam |-> flag_count >= 1,
        risk_level |-> IF flag_count >= 4 THEN "CRITICAL"
                       ELSE IF flag_count >= 2 THEN "HIGH"
                       ELSE IF flag_count = 1 THEN "MEDIUM"
                       ELSE "LOW",
        confidence |-> IF flag_count >= 4 THEN 9000
                       ELSE IF flag_count >= 2 THEN 7500
                       ELSE IF flag_count = 1 THEN 5000
                       ELSE 3000,
        scam_type |-> "Unknown (LLM analysis failed)",
        red_flags |-> red_flags]

\* what the structured-output call can hand back; <<>>: chain.invoke raised
LLMScamOutputs ==
    {<<>>} \cup
    {<<[is_scam |-> v[1], risk_level |-> v[2], confidence |-> v[3],
        scam_type |-> "Phishing", red_flags |-> <<>>]>> :
        v \in {<<TRUE, "CRITICAL", 9500>>, <<TRUE, "HIGH", 7000>>,
               <<FALSE, "LOW", 2000>>}}

_llm_analyze(red_flags, llm_out) ==
    IF llm_out = <<>> THEN _fallback_analysis(red_flags) ELSE llm_out[1]

\* predict_proba's scam probability; <<>>: _ml_predict returned None
MLOutputs ==
    {<<>>, <<0>>, <<5000>>, <<7000>>, <<10000>>}

_combine_results(llm_result, red_flags, ml_score) ==
    IF ml_score # <<>>
    THEN LET combined_confidence ==
                 (llm_result.confidence * 6 + ml_score[1] * 4) \div 10
         IN [llm_result EXCEPT
                !.confidence = combined_confidence,
                !.risk_level = IF combined_confidence >= 8500 THEN "CRITICAL"
                               ELSE IF combined_confidence >= 6500 THEN "HIGH"
                               ELSE IF combined_confidence >= 4000
                               THEN "MEDIUM"
                               ELSE "LOW",
                !.red_flags = red_flags]
    ELSE [llm_result EXCEPT !.red_flags = red_flags]

\* ml_model: the bundle was loaded; context: a non-empty context was passed;
\* ml_out: what _ml_predict gives for the message when it is called
detect_scam(message, context, llm_out, ml_model, ml_out) ==
    LET red_flags == RedFlagTable[message]
        llm_analysis == _llm_analyze(red_flags, llm_out)
        ml_score == IF ml_model /\ context THEN ml_out ELSE <<>>
    IN [detector |-> "detect_scam", message |-> message,
        context |-> context, ml_model |-> ml_model, ml_out |-> ml_out,
        llm_failed |-> llm_out = <<>>,
        llm_confidence |-> llm_analysis.confidence,
        llm_risk_level |-> llm_analysis.risk_level,
        result |-> _combine_results(llm_analysis, red_flags, ml_score)]

RequestVars ==
    <<sessions, chat_memory_store, transactions, budgets,
      _finance_db_instance, today, req, obs, result, set_budget_calls,
      heap, threads>>

\* one detect_scam call, as handle_scam_analysis (no context) and
\* analyze_email (with a context) make it
DetectScam ==
    /\ clock < 1
    /\ clock' = clock + 1
    /\ \E message \in ScamMessages, llm_out \in LLMScamOutputs,
          ml_model \in BOOLEAN, context \in BOOLEAN :
         \E ml_out \in IF ml_model THEN MLOutputs ELSE {<<>>} :
           analysis' = detect_scam(message, context, llm_out, ml_model,
                                   ml_out)
    /\ UNCHANGED RequestVars
    /\ UNCHANGED startup

NextScam ==
    DetectScam

SpecScam ==
    Init /\ [][NextScam]_vars

(***************************************************************************)
(* email_scam_analyser.py: EmailScamAnalyzer.analyze_email                 *)
(***************************************************************************)
safe_domains ==
    {<<"g","m","a","i","l",".","c","o","m">>,
     <<"g","o","o","g","l","e",".","c","o","m">>,
     <<"a","p","p","l","e",".","c","o","m">>,
     <<"m","i","c","r","o","s","o","f","t",".","c","o","m">>,
     <<"a","m","a","z","o","n",".","c","o","m">>,
     <<"p","a","y","p","a","l",".","c","o","m">>,
     <<"f","a","c","e","b","o","o","k",".","c","o","m">>,
     <<"t","w","i","t","t","e","r",".","c","o","m">>,
     <<"l","i","n","k","e","d","i","n",".","c","o","m">>,
     <<"g","i","t","h","u","b",".","c","o","m">>,
     <<"s","t","a","c","k","o","v","e","r","f","l","o","w",".","c","o","m">>}

\* 'a@gmail.com'
S_gmail ==
    <<"a","@","g","m","a","i","l",".","c","o","m">>

\* 'Shop <s@amazon.com>'
S_shop ==
    <<"S","h","o","p"," ","<","s","@","a","m","a","z","o","n",".","c","o","m",">">>

\* 'alerts@sbi.co.in'
S_bank ==
    <<"a","l","e","r","t","s","@","s","b","i",".","c","o",".","i","n">>

\* 'Support <help@paypal.com.evil.in>'
S_fake ==
    <<"S","u","p","p","o","r","t"," ","<","h","e","l","p","@","p","a","y","p","a","l",".","c","o","m",".","e","v","i","l",".","i","n",">">>

\* 'x@GitHub.com'
S_upper ==
    <<"x","@","G","i","t","H","u","b",".","c","o","m">>

\* 'friend'
S_plain ==
    <<"f","r","i","e","n","d">>

Senders ==
    {S_gmail, S_shop, S_bank, S_fake, S_upper, S_plain}

\* str.lower() on the letters that occur in the senders
LowerDomainChar(c) ==
    CASE c = "G" -> "g"
      [] c = "H" -> "h"
      [] c = "S" -> "s"
      [] OTHER -> c

\* the positions of character c in text s
positions(s, c) ==
    {i \in 1..Len(s) : s[i] = c}

Min(S) ==
    CHOOSE x \in S : \A y \in S : x <= y

Max(S) ==
    CHOOSE x \in S : \A y \in S : x >= y

\* s.split(c)[0]
before_first(s, c) ==
    IF positions(s, c) = {} THEN s
    ELSE SubSeq(s, 1, Min(positions(s, c)) - 1)

\* s.split(c)[1], for s that holds c: the text between the first c and the
\* next one, or the end
second_part(s, c) ==
    before_first(SubSeq(s, Min(positions(s, c)) + 1, Len(s)), c)

\* s.split(c)[-1]
after_last(s, c) ==
    IF positions(s, c) = {} THEN s
    ELSE SubSeq(s, Max(positions(s, c)) + 1, Len(s))

_extract_domain(email_address) ==
    LET address == IF positions(email_address, "<") # {}
                   THEN before_first(second_part(email_address, "<"), ">")
                   ELSE email_address
        domain == after_last(address, "@")
    IN [i \in 1..Len(domain) |-> LowerDomainChar(domain[i])]

DomainTable ==
    [sender \in Senders |-> _extract_domain(sender)]

\* the floor applied to every safe sender, scam verdicts included
analyze_email_floor_always(sender, scam_analysis) ==
    LET sender_domain == DomainTable[sender]
        safe_sender == sender_domain \in safe_domains
    IN [detector |-> "analyze_email", sender |-> sender,
        sender_domain |-> sender_domain, safe_sender |-> safe_sender,
        base |-> scam_analysis,
        result |->
            IF safe_sender
            THEN [scam_analysis EXCEPT
                     !.confidence = IF scam_analysis.confidence >= 9000
                                    THEN scam_analysis.confidence ELSE 9000,
                     !.risk_level = "LOW"]
            ELSE scam_analysis]

\* scam_analysis: what detect_scam returned for the email's text
analyze_email(sender, scam_analysis) ==
    LET sender_domain == DomainTable[sender]
        safe_sender == sender_domain \in safe_domains
    IN [detector |-> "analyze_email", sender |-> sender,
        sender_domain |-> sender_domain, safe_sender |-> safe_sender,
        base |-> scam_analysis,
        result |->
            IF safe_sender /\ ~scam_analysis.is_scam
            THEN [scam_analysis EXCEPT
                     !.confidence = IF scam_analysis.confidence >= 9000
                                    THEN scam_analysis.confidence ELSE 9000,
                     !.risk_level = "LOW"]
            ELSE scam_analysis]

\* one analyze_email call; detect_scam is given a context
AnalyzeEmail ==
    /\ clock < 1
    /\ clock' = clock + 1
    /\ \E sender \in Senders, message \in ScamMessages,
          llm_out \in LLMScamOutputs, ml_model \in BOOLEAN :
         \E ml_out \in IF ml_model THEN MLOutputs ELSE {<<>>} :
           analysis' =
               analyze_email(sender,
                             detect_scam(message, TRUE, llm_out, ml_model,
                                         ml_out).result)
    /\ UNCHANGED RequestVars
    /\ UNCHANGED startup

NextEmail ==
    AnalyzeEmail

SpecEmail ==
    Init /\ [][NextEmail]_vars

(***************************************************************************)
(* app/main.py: importing the module and the lifespan up to `yield`.       *)
(* `from app.query import query_router` (line 3) imports the router, which *)
(* imports llm/run_agent.py, which imports retrieval/vector_retrieval.py:  *)
(* that module builds the embeddings client and opens the two Chroma       *)
(* stores while it is imported, and re-raises when that fails.             *)
(***************************************************************************)
required_vars ==
    {"GROQ_API_KEY", "GOOGLE_API_KEY", "NEO4J_URI", "NEO4J_USERNAME",
     "NEO4J_PASSWORD", "NEO4J_URI2", "NEO4J_USERNAME2", "NEO4J_PASSWORD2"}

\* the process is started with some of the variables unset
InitStartup ==
    /\ sessions = <<>>
    /\ chat_memory_store = <<>>
    /\ transactions = <<>>
    /\ budgets = <<>>
    /\ set_budget_calls = <<>>
    /\ _finance_db_instance = <<>>
    /\ today = FirstDay
    /\ clock = 0
    /\ req = NoReq
    /\ obs = NoObs
    /\ result = NoResult
    /\ heap = EmptyHeap
    /\ threads = [t \in Threads |-> IdleThread]
    /\ analysis = NoAnalysis
    /\ \E missing \in SUBSET required_vars :
         startup = [phase |-> "import", missing |-> missing,
                    env_checked |-> FALSE, services |-> {}, cause |-> ""]

StartupFrame ==
    UNCHANGED <<sessions, chat_memory_store, transactions, budgets, today,
                clock, req, obs, result, set_budget_calls, heap, threads,
                analysis>>

\* main.py lines 1-6: the imports run the module-level code of the router
\* and of the retrieval modules before the lifespan exists
ImportApplication ==
    /\ startup.phase = "import"
    /\ \E stores_ok \in BOOLEAN :
         startup' =
             IF stores_ok
             THEN [startup EXCEPT
                      !.phase = "phase1",
                      !.services = @ \cup {"llm_clients", "vector_stores"}]
             ELSE [startup EXCEPT !.phase = "halted",
                                  !.cause = "import raised"]
    /\ UNCHANGED _finance_db_instance
    /\ StartupFrame

\* lifespan, phase 1
ValidateEnvironment ==
    /\ startup.phase = "phase1"
    /\ startup' =
          IF startup.missing # {}
          THEN [startup EXCEPT !.phase = "halted", !.env_checked = TRUE,
                               !.cause = "sys.exit(1)"]
          ELSE [startup EXCEPT !.phase = "phase2", !.env_checked = TRUE]
    /\ UNCHANGED _finance_db_instance
    /\ StartupFrame

\* lifespan, phase 2: get_finance_db() and verify_connection() inside
\* try/except Exception
InitFinanceDatabase ==
    /\ startup.phase = "phase2"
    /\ \E db_up \in ConnectOutcomes, verified \in BOOLEAN :
         /\ _finance_db_instance' =
               IF db_up THEN FinanceDBInstance ELSE _finance_db_instance
         /\ startup' =
               [startup EXCEPT
                   !.phase = "phase3",
                   !.services = IF db_up /\ verified
                                THEN @ \cup {"finance_db"} ELSE @]
    /\ StartupFrame

\* lifespan, phase 3: get_scam_detector() inside try/except Exception
InitScamDetector ==
    /\ startup.phase = "phase3"
    /\ \E detector_ok \in BOOLEAN :
         startup' =
             [startup EXCEPT
                 !.phase = "phase4",
                 !.services = IF detector_ok
                              THEN @ \cup {"scam_detector"} ELSE @]
    /\ UNCHANGED _finance_db_instance
    /\ StartupFrame

\* lifespan, phase 4 and `yield`: PDF_URL is only looked at
StartServing ==
    /\ startup.phase = "phase4"
    /\ startup' = [startup EXCEPT !.phase = "serving"]
    /\ UNCHANGED _finance_db_instance
    /\ StartupFrame

NextStartup ==
    \/ ImportApplication
    \/ ValidateEnvironment
    \/ InitFinanceDatabase
    \/ InitScamDetector
    \/ StartServing

SpecStartup ==
    InitStartup /\ [][NextStartup]_vars

(***************************************************************************)
(* db_/neo4j_finance.py: get_finance_db and reset_finance_db under         *)
(* overlapping callers.  heap.dicts holds the FinanceDB objects built so   *)
(* far, the global _finance_db_instance refers to one of them by address,  *)
(* and clock counts the resets.                                            *)
(***************************************************************************)
MaxResets ==
    1

\* what a caller can pass as kg_conn; <<>> is None
KgConnArguments ==
    {<<>>, <<"knowledge graph connection">>}

IdleCaller ==
    [pc |-> "idle", kg_conn |-> <<>>, epoch |-> 0, returned |-> <<>>,
     status |-> "none"]

InitSingleton ==
    /\ sessions = <<>>
    /\ chat_memory_store = <<>>
    /\ transactions = <<>>
    /\ budgets = <<>>
    /\ set_budget_calls = <<>>
    /\ _finance_db_instance = <<>>
    /\ today = FirstDay
    /\ clock = 0
    /\ req = NoReq
    /\ obs = NoObs
    /\ result = NoResult
    /\ heap = EmptyHeap
    /\ threads = [t \in Threads |-> IdleCaller]
    /\ analysis = NoAnalysis
    /\ startup = Serving

SingletonFrame ==
    UNCHANGED <<sessions, chat_memory_store, transactions, budgets, today,
                req, obs, result, set_budget_calls, analysis, startup>>

\* a caller enters get_finance_db(kg_conn); lines 173-178 only print
call_get_finance_db(t) ==
    /\ threads[t].pc = "idle"
    /\ \E kg_conn \in KgConnArguments :
         threads' = [threads EXCEPT ![t] =
                        [IdleCaller EXCEPT !.pc = "test",
                                           !.kg_conn = kg_conn,
                                           !.epoch = clock]]
    /\ UNCHANGED <<heap, _finance_db_instance, clock>>
    /\ SingletonFrame

\* line 180: `if _finance_db_instance is None`
singleton_test(t) ==
    /\ threads[t].pc = "test"
    /\ threads' = [threads EXCEPT ![t].pc =
                      IF _finance_db_instance = <<>>
                      THEN "construct" ELSE "return"]
    /\ UNCHANGED <<heap, _finance_db_instance, clock>>
    /\ SingletonFrame

\* line 181: FinanceDB(None) opens a connection with the finance
\* credentials, or raises; the new object is then stored in the global
singleton_construct(t) ==
    /\ threads[t].pc = "construct"
    /\ \E connected \in BOOLEAN :
         IF connected
         THEN /\ heap' = [heap EXCEPT !.dicts =
                             Append(@, [class |-> "FinanceDB",
                                        kg |-> <<>>,
                                        epoch |-> clock])]
              /\ _finance_db_instance' = <<Len(heap.dicts) + 1>>
              /\ threads' = [threads EXCEPT ![t].pc = "return"]
         ELSE /\ threads' = [threads EXCEPT ![t].pc = "done",
                                            ![t].status = "raised"]
              /\ UNCHANGED <<heap, _finance_db_instance>>
    /\ UNCHANGED clock
    /\ SingletonFrame

\* line 184: `return _finance_db_instance` reads the global again
singleton_return(t) ==
    /\ threads[t].pc = "return"
    /\ threads' = [threads EXCEPT ![t].pc = "done",
                                  ![t].status = "returned",
                                  ![t].returned = _finance_db_instance]
    /\ UNCHANGED <<heap, _finance_db_instance, clock>>
    /\ SingletonFrame

\* reset_finance_db: the global is set to None
reset_finance_db ==
    /\ clock < MaxResets
    /\ clock' = clock + 1
    /\ _finance_db_instance' = <<>>
    /\ UNCHANGED <<heap, threads>>
    /\ SingletonFrame

NextSingleton ==
    \/ \E t \in Threads :
          \/ call_get_finance_db(t)
          \/ singleton_test(t)
          \/ singleton_construct(t)
          \/ singleton_return(t)
    \/ reset_finance_db

SpecSingleton ==
    InitSingleton /\ [][NextSingleton]_vars

(***************************************************************************)
(* Properties                                                              *)
(***************************************************************************)
Routed ==
    req # NoReq

FinanceHandlers ==
    {"handle_transaction_request", "handle_spending_query"}

C2_LowConfidenceToSchemes ==
    (Routed /\ ~GreetingTable[req.query] /\ req.confidence < 60)
        => obs.handler = "run_agent"

\* C3: when extraction fails or yields an amount <= 0, the request leaves
\* the stored transactions as they were, no add_transaction call succeeds
\* and the envelope's transaction field stays null.
C3_NoWriteOnBadExtraction ==
    [][(/\ obs'.handler \in FinanceHandlers
        /\ obs'.branch = "transaction"
        /\ obs'.connected
        /\ (obs'.parsed = <<>> \/ obs'.parsed[1].amount <= 0))
       => (/\ transactions' = transactions
           /\ ~obs'.stored
           /\ result'.status = "returned"
           /\ result'.transaction = <<>>)]_vars

C3_Witness ==
    /\ obs.handler = "handle_transaction_request"
    /\ obs.branch = "transaction"
    /\ obs.parsed # <<>>
    /\ obs.parsed[1].amount <= 0
    /\ transactions = <<PriorTransaction>>
    /\ result.transaction = <<>>

\* C4: a query classified as transaction_logging whose extraction yields a
\* positive amount and whose write succeeds adds exactly one Transaction,
\* for the request's user_id, with the extracted amount and category; the
\* answer is "Transaction logged" and the envelope carries that transaction.
C4_TransactionLogged ==
    [][(/\ req'.category = "transaction_logging"
        /\ obs'.parsed # <<>>
        /\ obs'.parsed[1].amount > 0
        /\ obs'.stored)
       => (/\ Len(transactions') = Len(transactions) + 1
           /\ SubSeq(transactions', 1, Len(transactions)) = transactions
           /\ LET t == transactions'[Len(transactions')]
                  x == obs'.parsed[1]
              IN /\ t.user_id = req'.user_id
                 /\ t.amount = x.amount
                 /\ t.category = x.category
                 /\ result'.status = "returned"
                 /\ result'.answer.kind = "Transaction logged"
                 /\ result'.transaction # <<>>
                 /\ result'.transaction[1].amount = t.amount
                 /\ result'.transaction[1].category = t.category
                 /\ result'.transaction[1].description = t.description
                 /\ result'.transaction[1].type = t.type)]_vars

C4_Witness ==
    /\ req.category = "transaction_logging"
    /\ req.user_id = "u2"
    /\ obs.stored
    /\ Len(transactions) = 2
    /\ transactions[2].user_id = "u2"
    /\ transactions[2].amount = 50
    /\ result.answer.kind = "Transaction logged"

\* the Budget nodes of a (user_id, category) pair
BudgetNodes(user_id, category) ==
    {i \in 1..Len(budgets) : /\ budgets[i].user_id = user_id
                             /\ budgets[i].category = category}

\* call i is the latest call for its (user_id, category) pair
LatestForPair(i) ==
    \A j \in (i + 1)..Len(set_budget_calls) :
       \/ set_budget_calls[j].user_id # set_budget_calls[i].user_id
       \/ set_budget_calls[j].category # set_budget_calls[i].category

\* call i is the latest successful call for its pair, letter case aside
LatestSuccessForPair(i) ==
    /\ set_budget_calls[i].ok
    /\ \A j \in (i + 1)..Len(set_budget_calls) :
          \/ ~set_budget_calls[j].ok
          \/ set_budget_calls[j].user_id # set_budget_calls[i].user_id
          \/ lower(set_budget_calls[j].category)
                # lower(set_budget_calls[i].category)

\* C5 as stated: one Budget record per (user_id, category) pair of any
\* set_budget call, holding the limit of the latest call for that pair.
C5_EveryCall ==
    \A i \in 1..Len(set_budget_calls) :
        LET c == set_budget_calls[i]
        IN /\ Cardinality(BudgetNodes(c.user_id, c.category)) = 1
           /\ LatestForPair(i) =>
                 \A n \in BudgetNodes(c.user_id, c.category) :
                    budgets[n].monthly_limit = c.monthly_limit

\* C5: one Budget record per (user_id, lower-cased category) pair of a
\* set_budget call that succeeded, holding the limit of the latest
\* successful call for that pair, and no other Budget record.
C5_OnePerPair ==
    /\ \A i \in 1..Len(set_budget_calls) :
         LET c == set_budget_calls[i]
         IN c.ok =>
              /\ Cardinality(BudgetNodes(c.user_id, lower(c.category))) = 1
              /\ LatestSuccessForPair(i) =>
                    \A n \in BudgetNodes(c.user_id, lower(c.category)) :
                       budgets[n].monthly_limit = c.monthly_limit
    /\ \A n \in 1..Len(budgets) :
         \E i \in 1..Len(set_budget_calls) :
            /\ set_budget_calls[i].ok
            /\ set_budget_calls[i].user_id = budgets[n].user_id
            /\ lower(set_budget_calls[i].category) = budgets[n].category

C5_Witness ==
    /\ Len(set_budget_calls) = 3
    /\ \A i \in 1..3 : /\ set_budget_calls[i].ok
                       /\ set_budget_calls[i].user_id = "u1"
    /\ set_budget_calls[2].category = Food
    /\ set_budget_calls[3].category = food
    /\ budgets = <<[user_id |-> "u1", category |-> food,
                    monthly_limit |-> 100]>>

\* the row's usage, spent / budget * 100, is at least k
AtLeast(row, k) ==
    IF row.usage_percent.den > 0
    THEN row.usage_percent.num >= k * row.usage_percent.den
    ELSE row.usage_percent.num > 0

ExpectedTier(row) ==
    IF AtLeast(row, 100) THEN "BUDGET EXCEEDED"
    ELSE IF AtLeast(row, 90) THEN "WARNING"
    ELSE "info"

\* C6: each row gets at most one alert, of the highest tier that applies
\* (100, 90, 75), rows under 75 get none, and the result is None exactly
\* when no row reaches 75.
C6_AlertTiers ==
    obs.handler = "generate_alert" =>
        LET rows == obs.before
            alerts == IF result.alert = <<>> THEN <<>> ELSE result.alert[1]
            alerted == {i \in 1..Len(rows) : AtLeast(rows[i], 75)}
        IN /\ (result.alert = <<>>) <=> (alerted = {})
           /\ Len(alerts) = Cardinality(alerted)
           /\ \A i \in 1..Len(rows) :
                LET mine == {a \in 1..Len(alerts) :
                               alerts[a].category = rows[i].category}
                IN IF i \in alerted
                   THEN /\ Cardinality(mine) = 1
                        /\ \A a \in mine :
                              alerts[a].tier = ExpectedTier(rows[i])
                   ELSE mine = {}

C6_Witness ==
    /\ obs.handler = "generate_alert"
    /\ Len(obs.before) = 2
    /\ obs.before[1].spent = 200 /\ obs.before[1].budget = 200
    /\ obs.before[2].spent = 149 /\ obs.before[2].budget = 200
    /\ result.alert # <<>>
    /\ Len(result.alert[1]) = 1
    /\ result.alert[1][1].tier = "BUDGET EXCEEDED"

\* C7: after a run_agent call that returned, the user's stored session has
\* at most 10 messages, and if the appended turn made it longer than 10 it
\* is exactly the 4 newest messages.
C7_SessionBound ==
    (obs.handler = "run_agent" /\ result.status = "returned") =>
        LET stored == sessions[obs.user_id].session
            appended == obs.before \o <<HumanMessage(obs.turn),
                                        AIMessage(obs.turn, "answer")>>
        IN /\ Len(stored) <= 10
           /\ Len(appended) > 10 =>
                /\ Len(stored) = 4
                /\ stored = SubSeq(appended, Len(appended) - 3, Len(appended))
           /\ Len(appended) <= 10 => stored = appended

C7_Witness ==
    /\ obs.handler = "run_agent"
    /\ result.status = "returned"
    /\ Len(obs.before) = 12
    /\ Len(sessions[obs.user_id].session) = 4
    /\ sessions[obs.user_id].session[4] = AIMessage(obs.turn, "answer")

\* some message of the turn is in the user's stored session or in a chunk
\* handed to add_to_vectordb for that user
TurnKept(user_id, turn) ==
    \/ \E i \in 1..Len(sessions[user_id].session) :
          sessions[user_id].session[i].turn = turn
    \/ \E c \in 1..Len(chat_memory_store) :
          /\ chat_memory_store[c].session_id = user_id
          /\ \E i \in 1..Len(chat_memory_store[c].messages) :
                chat_memory_store[c].messages[i].turn = turn

\* the call of worker t completed and its turn is kept nowhere
LostUpdate(t) ==
    /\ threads[t].pc = "done"
    /\ threads[t].status = "returned"
    /\ ~TurnKept(threads[t].user_id, threads[t].turn)

\* two run_agent calls for the user have been in progress at the same time
Overlapped(user_id) ==
    \E t \in Threads : /\ threads[t].user_id = user_id
                        /\ threads[t].overlapped

\* C8: overlapping run_agent calls for one user_id can lose an update, so
\* that the turn of a call that returned is in neither the stored session
\* nor any archived chunk; while no two calls for a user have overlapped,
\* every returned turn of that user is kept.
C8_LostOnlyWhenOverlapping ==
    \A t \in Threads : LostUpdate(t) => Overlapped(threads[t].user_id)

C8_Witness ==
    /\ \A t \in Threads : threads[t].pc = "done"
    /\ \E t \in Threads : /\ LostUpdate(t)
                          /\ threads[t].overlapped

\* C9: finance_transaction_handler and handle_budget_setup never raise,
\* whichever database operation fails.
C9_NeverRaises ==
    obs.handler \in FinanceHandlers \cup {"handle_budget_request"}
        => result.status = "returned"

DatabaseErrorAnswer ==
    Answer("I'm having trouble accessing your financial data.")

\* C10: when a query behind a spending report fails, the answer is the
\* database-error message.
C10_ReportFailureIsReported ==
    (/\ obs.handler \in FinanceHandlers
     /\ obs.branch \in {"today", "yesterday", "week", "monthly"}
     /\ obs.kg_failed)
        => result.answer = DatabaseErrorAnswer

\* C11: when the classifier's LLM call fails, classify_query hands the
\* fallback (general_conversation, 0.5) to the router after one attempt, and
\* the request goes on to a handler instead of ending in the error.
C11_FallbackAfterOneAttempt ==
    (Routed /\ req.classifier_failed)
        => /\ req.category = "general_conversation"
           /\ req.confidence = 50
           /\ req.attempts = 1
           /\ obs.handler \in {"handle_greeting", "run_agent"}

C11_Witness ==
    /\ Routed
    /\ req.classifier_failed
    /\ req.query = Q_ok
    /\ req.attempts = 1
    /\ obs.handler = "run_agent"

FallbackRisk(count) ==
    IF count >= 4 THEN "CRITICAL"
    ELSE IF count >= 2 THEN "HIGH"
    ELSE IF count = 1 THEN "MEDIUM"
    ELSE "LOW"

\* the classifier's score took part in the result
Blended ==
    /\ analysis.detector = "detect_scam"
    /\ analysis.ml_model /\ analysis.context /\ analysis.ml_out # <<>>

FallbackOnly ==
    /\ analysis.detector = "detect_scam"
    /\ analysis.llm_failed

\* the keywords of the table that occur in the lower-cased message, each
\* counted once for every category that lists it
KeywordHits(message) ==
    UNION {{<<r, k>> : k \in {j \in 1..Len(red_flag_keywords[r].keywords) :
                                 contains(lower(message),
                                          red_flag_keywords[r].keywords[j])}} :
              r \in 1..Len(red_flag_keywords)}

CategoriesHit(message) ==
    {h[1] : h \in KeywordHits(message)}

\* C12 as stated: on the fallback path the risk level follows the number of
\* distinct red-flag categories matched (>= 4 CRITICAL, 2-3 HIGH, 1 MEDIUM,
\* 0 LOW).
C12_RiskByCategories ==
    FallbackOnly =>
        analysis.llm_risk_level
            = FallbackRisk(Cardinality(CategoriesHit(analysis.message)))

\* C12: on the fallback path the risk level follows the number of matched
\* keywords, a keyword counting once for each category that lists it
\* (>= 4 CRITICAL, 2-3 HIGH, 1 MEDIUM, 0 LOW), and that level is the one
\* returned unless a classifier score was blended in.
C12_RiskByKeywords ==
    FallbackOnly =>
        /\ analysis.llm_risk_level
             = FallbackRisk(Cardinality(KeywordHits(analysis.message)))
        /\ ~Blended => analysis.result.risk_level = analysis.llm_risk_level

C12_Witness ==
    /\ FallbackOnly
    /\ analysis.message = M_pressure
    /\ Cardinality(CategoriesHit(analysis.message)) = 1
    /\ ~Blended
    /\ analysis.llm_risk_level = "HIGH"
    /\ analysis.result.risk_level = "HIGH"

\* the handler ran its rules (the database object was obtained)
FinanceHandlerRan ==
    /\ obs.handler \in {"handle_transaction_request", "handle_spending_query"}
    /\ obs.connected

\* which windows' keywords occur in each sample text, tabulated once
WindowTable ==
    [q \in Queries |->
        [today |-> any_kw(lower(q), TodayKeywords),
         yesterday |-> any_kw(lower(q), YesterdayKeywords),
         week |-> any_kw(lower(q), WeekKeywords),
         monthly |-> any_kw(lower(q), SpendingKeywords)]]

\* the answers each report rule can give
ReportKinds ==
    [today |-> {"You haven't logged any transactions today yet.",
                "Today's Spending Report"},
     yesterday |-> {"You didn't log any transactions yesterday.",
                    "Yesterday's Spending Report"},
     week |-> {"No transactions in the last 7 days.",
               "Last 7 Days Spending"},
     monthly |-> {"You haven't logged any transactions yet this month.",
                  "Spending Summary"}]

\* C13: the report rules are tried in the order today, yesterday, last 7
\* days, monthly; a query with keywords of several windows gets the report
\* of the first of them in that order, and the one answer returned is that
\* report.
C13_FirstWindowWins ==
    FinanceHandlerRan =>
        LET has == WindowTable[obs.query]
            kind == result.answer.kind
        IN /\ has.today => kind \in ReportKinds.today
           /\ (~has.today /\ has.yesterday) => kind \in ReportKinds.yesterday
           /\ (~has.today /\ ~has.yesterday /\ has.week)
                => kind \in ReportKinds.week
           /\ (~has.today /\ ~has.yesterday /\ ~has.week /\ has.monthly)
                => kind \in ReportKinds.monthly

C13_Witness ==
    /\ FinanceHandlerRan
    /\ obs.query = Q_all_windows
    /\ WindowTable[obs.query].today
    /\ WindowTable[obs.query].yesterday
    /\ WindowTable[obs.query].week
    /\ WindowTable[obs.query].monthly
    /\ result.answer.kind = "Today's Spending Report"

\* the turn of the last request is in that user's session
TurnInSession ==
    /\ req.user_id \in DOMAIN sessions
    /\ \E i \in 1..Len(sessions[req.user_id].session) :
          sessions[req.user_id].session[i].turn = clock

EnvelopeTypes ==
    {"schemes", "finance", "spending_report", "budget_setup",
     "scam_analysis", "scam_analysis_error", "scam_education",
     "concept_explanation", "concept_explanation_error",
     "email_scam_check", "email_payment_extraction", "greeting"}

\* the type each handler gives when its work succeeds
TypeOfBranch ==
    [run_agent |-> "schemes",
     handle_transaction_request |-> "finance",
     handle_spending_query |-> "spending_report",
     handle_budget_request |-> "budget_setup",
     handle_scam_analysis |-> "scam_analysis",
     handle_scam_education |-> "scam_education",
     handle_concept_explanation_request |-> "concept_explanation",
     handle_email_scam_request |-> "email_scam_check",
     handle_email_payment_request |-> "email_payment_extraction",
     handle_greeting |-> "greeting"]

\* the type given by the except branch of the two handlers that have one
ErrorTypeOfBranch ==
    [handle_scam_analysis |-> "scam_analysis_error",
     handle_concept_explanation_request |-> "concept_explanation_error"]

EnvelopeReturned ==
    Routed /\ result.status = "returned"

\* C15 as stated: every envelope returned by router_feature has a type of
\* the fixed set, and the type is fixed by the dispatch branch alone.
C15_TypeByBranchAlone ==
    EnvelopeReturned =>
        /\ result.type \in EnvelopeTypes
        /\ result.type = TypeOfBranch[obs.handler]

\* C15: every envelope returned by router_feature has an answer and a type
\* of the fixed set; the type is the one of the dispatch branch, except that
\* the scam-analysis and concept-explanation branches return their _error
\* type when the handler's work raised.
C15_TypeByBranchAndFailure ==
    EnvelopeReturned =>
        /\ result.answer # NoAnswer
        /\ result.type \in EnvelopeTypes
        /\ \/ result.type = TypeOfBranch[obs.handler]
           \/ /\ obs.handler \in DOMAIN ErrorTypeOfBranch
              /\ result.type = ErrorTypeOfBranch[obs.handler]

C15_Witness ==
    /\ EnvelopeReturned
    /\ req.category = "scam_analysis"
    /\ obs.handler = "handle_scam_analysis"
    /\ result.type = "scam_analysis_error"

\* the categories the budget prompt names
BudgetCategories ==
    {<<"f","o","o","d">>,
     <<"t","r","a","n","s","p","o","r","t">>,
     <<"s","h","o","p","p","i","n","g">>,
     <<"e","n","t","e","r","t","a","i","n","m","e","n","t">>,
     <<"b","i","l","l","s">>,
     <<"h","e","a","l","t","h">>,
     <<"e","d","u","c","a","t","i","o","n">>,
     <<"o","t","h","e","r">>}

\* C16: every Budget in the store has a category of the enumerated set and
\* a limit greater than 0, and a budget request whose extraction has another
\* category or a limit of 0 or less stores nothing.
C16_OnlyEnumeratedPositive ==
    /\ \A i \in 1..Len(budgets) :
          /\ budgets[i].category \in BudgetCategories
          /\ budgets[i].monthly_limit > 0
    /\ (obs.handler = "handle_budget_request" /\ obs.parsed # <<>>
          /\ ~(/\ lower(obs.parsed[1].category) \in BudgetCategories
               /\ obs.parsed[1].limit > 0))
         => ~obs.stored

EmailAnalyzed ==
    analysis.detector = "analyze_email"

\* C18: for an email whose sender domain is in the known-safe list and whose
\* base verdict is not-scam, analyze_email returns confidence >= 0.9 and
\* risk level LOW; when the base verdict is scam or the domain is not in
\* the list, confidence and risk level are those of the base verdict.
C18_SafeSenderFloor ==
    EmailAnalyzed =>
        IF analysis.sender_domain \in safe_domains /\ ~analysis.base.is_scam
        THEN /\ analysis.result.confidence >= 9000
             /\ analysis.result.confidence >= analysis.base.confidence
             /\ analysis.result.risk_level = "LOW"
        ELSE /\ analysis.result.confidence = analysis.base.confidence
             /\ analysis.result.risk_level = analysis.base.risk_level

C18_Witness ==
    /\ EmailAnalyzed
    /\ analysis.sender = S_shop
    /\ analysis.sender_domain \in safe_domains
    /\ ~analysis.base.is_scam
    /\ analysis.base.confidence < 9000
    /\ analysis.base.risk_level # "LOW"
    /\ analysis.result.confidence = 9000
    /\ analysis.result.risk_level = "LOW"

\* C19: startup halts exactly when a required environment variable is
\* missing, no service is initialized before the variables have been
\* looked at, and a start with all variables set reaches the serving state
\* whatever happens to the finance database and the scam detector.
C19_HaltsOnlyOnMissingVariable ==
    /\ startup.phase = "halted" => startup.missing # {}
    /\ startup.phase = "serving" => startup.missing = {}
    /\ ~startup.env_checked => startup.services = {}

TransactionRequestReturned ==
    /\ obs.handler = "handle_transaction_request"
    /\ result.status = "returned"

\* some budget of the user, in any category, is used to 75% or more by the
\* expenses now in the store
AnyBudgetAtLeast75(user_id) ==
    \E i \in 1..Len(budgets) :
       /\ budgets[i].user_id = user_id
       /\ usage_ge([num |-> spent_on(transactions, user_id,
                                     budgets[i].category) * 100,
                    den |-> budgets[i].monthly_limit], 75)

BlendedConfidence ==
    (analysis.llm_confidence * 6 + analysis.ml_out[1] * 4) \div 10

RiskOfConfidence(confidence) ==
    IF confidence >= 8500 THEN "CRITICAL"
    ELSE IF confidence >= 6500 THEN "HIGH"
    ELSE IF confidence >= 4000 THEN "MEDIUM"
    ELSE "LOW"

\* C17: whenever the classifier bundle is loaded (and gives a score for the
\* message), a detect_scam call returns the confidence 0.6 x LLM confidence
\* + 0.4 x model score and the risk level of that blended score, with or
\* without a context argument.
C17_BlendedWheneverLoaded ==
    (/\ analysis.detector = "detect_scam"
     /\ analysis.ml_model
     /\ analysis.ml_out # <<>>)
        => /\ analysis.result.confidence = BlendedConfidence
           /\ analysis.result.risk_level = RiskOfConfidence(BlendedConfidence)

\* the messages of a list, as a set
MessagesOf(list) ==
    {list[i] : i \in 1..Len(list)}

\* the positions (chunk, index) at which message m of user_id is archived
ArchivedAt(store, user_id, m) ==
    UNION {{<<c, i>> : i \in {k \in 1..Len(store[c].messages) :
                                store[c].messages[k] = m}} :
              c \in {k \in 1..Len(store) : store[k].session_id = user_id}}

\* the messages of user_id found in any archived chunk
Archived(store, user_id) ==
    UNION {MessagesOf(store[c].messages) :
              c \in {k \in 1..Len(store) : store[k].session_id = user_id}}

\* C21: in a sequential run of run_agent calls each message is handed to
\* add_to_vectordb exactly once, at the truncation that takes it out of the
\* session: a message still in the stored session is in no archived chunk,
\* no message is archived twice, and a message that leaves the session is in
\* the chunk archived by that same call.
C21_ArchivedExactlyOnce ==
    [][\A u \in DOMAIN sessions' :
         LET before == IF u \in DOMAIN sessions
                       THEN MessagesOf(sessions[u].session) ELSE {}
             after == MessagesOf(sessions'[u].session)
             archived == Archived(chat_memory_store, u)
             archived_after == Archived(chat_memory_store', u)
         IN /\ after \cap archived_after = {}
            /\ \A m \in archived_after :
                  Cardinality(ArchivedAt(chat_memory_store', u, m)) = 1
            /\ (before \ after) \subseteq (archived_after \ archived)
            /\ archived \subseteq archived_after]_vars

C21_Witness ==
    /\ obs.handler = "run_agent"
    /\ obs.archived
    /\ Len(chat_memory_store) = 1
    /\ Len(chat_memory_store[1].messages) = 8
    /\ Len(sessions[obs.user_id].session) = 4
    /\ MessagesOf(sessions[obs.user_id].session)
          \cap MessagesOf(chat_memory_store[1].messages) = {}

\* the FinanceDB objects constructed while `epoch` resets had been made
ConstructedIn(epoch) ==
    {a \in 1..Len(heap.dicts) : heap.dicts[a].epoch = epoch}

\* C22: between two resets get_finance_db constructs at most one FinanceDB
\* and every caller gets that same instance, overlapping first calls
\* included; a kg_conn argument is never used as the connection.
C22_OneInstanceBetweenResets ==
    /\ \A epoch \in 0..clock : Cardinality(ConstructedIn(epoch)) <= 1
    /\ \A t1, t2 \in Threads :
          (/\ threads[t1].status = "returned"
           /\ threads[t2].status = "returned"
           /\ threads[t1].epoch = threads[t2].epoch
           /\ threads[t1].returned # <<>>
           /\ threads[t2].returned # <<>>
           /\ heap.dicts[threads[t1].returned[1]].epoch = threads[t1].epoch
           /\ heap.dicts[threads[t2].returned[1]].epoch = threads[t2].epoch)
             => threads[t1].returned = threads[t2].returned
    /\ \A a \in 1..Len(heap.dicts) : heap.dicts[a].kg = <<>>

\* the handler the else branch of router_feature picks
GeneralConversationHandler ==
    IF GreetingTable[req.query] THEN "handle_greeting"
    ELSE IF req.confidence < 60 THEN "run_agent"
    ELSE "handle_greeting"

\* C23: for the category general_conversation (the classifier-failure
\* fallback included) router_feature decides in this order: greeting if the
\* query matches the greeting heuristic, otherwise run_agent (type
\* "schemes") if confidence < 0.6, otherwise greeting; so after a classifier
\* failure the query goes to run_agent exactly when it is not a greeting.
C23_GeneralConversationOrder ==
    (Routed /\ req.category = "general_conversation") =>
        /\ obs.handler = GeneralConversationHandler
        /\ result.status = "returned" =>
             result.type = IF obs.handler = "run_agent"
                           THEN "schemes" ELSE "greeting"
        /\ req.classifier_failed =>
             (obs.handler = "run_agent" <=> ~GreetingTable[req.query])

C23_Witness ==
    /\ Routed
    /\ req.classifier_failed
    /\ req.category = "general_conversation"
    /\ ~GreetingTable[req.query]
    /\ obs.handler = "run_agent"
    /\ result.status = "returned"
    /\ result.type = "schemes"

\* C24: when the graph invocation fails inside run_agent, run_agent does
\* not raise: it returns an envelope of type "schemes" whose answer is the
\* apology, and the failed turn is appended to the user's session.
C24_GraphFailureAnswered ==
    (obs.handler = "run_agent" /\ ~obs.graph_ok) =>
        /\ result.status = "returned"
        /\ result.type = "schemes"
        /\ result.answer.kind = "apology"
        /\ \E i \in 1..Len(sessions[obs.user_id].session) :
              sessions[obs.user_id].session[i]
                 = AIMessage(obs.turn, "apology")

\* C25: handling a query classified as spending_query never writes to the
\* finance store: no Transaction and no Budget is created or changed.
C25_SpendingQueryReadsOnly ==
    [][obs'.handler = "handle_spending_query"
          => /\ transactions' = transactions
             /\ budgets' = budgets]_vars

\* the user's expenses in the category dated in the calendar month of `now`
spent_this_month(txs, user_id, category, now) ==
    SumOver(SelectSeq(txs, LAMBDA t : /\ t.user_id = user_id
                                      /\ t.category = <<category>>
                                      /\ t.type = "expense"
                                      /\ t.date >= start_of_month(now)),
            "amount")

AnyBudgetAtLeast75ThisMonth(user_id) ==
    \E i \in 1..Len(budgets) :
       /\ budgets[i].user_id = user_id
       /\ usage_ge([num |-> spent_this_month(transactions, user_id,
                                budgets[i].category, today) * 100,
                    den |-> budgets[i].monthly_limit], 75)

\* C26: check_budget_status measures usage against the current calendar
\* month only: expenses dated in earlier months do not count, so after a
\* store an alert is returned exactly when some budget is used to 75% or
\* more by this month's expenses.
C26_UsageOfCurrentMonth ==
    (TransactionRequestReturned /\ obs.stored /\ ~obs.kg_failed) =>
        (result.alert # <<>> <=> AnyBudgetAtLeast75ThisMonth(obs.user_id))

\* The budget rows check_budget_status would return had the transaction
\* just stored been extracted with category "other"
StatusAsOther ==
    LET before == SubSeq(transactions, 1, Len(transactions) - 1)
        asOther == [obs.parsed[1] EXCEPT !.category = <<other>>]
    IN check_budget_status(
           add_transaction(before, obs.user_id, asOther, today,
                           TRUE).transactions,
           budgets, obs.user_id, TRUE)

\* C27: a transaction extracted without a category (null) is stored with
\* category "other" and counts toward the user's "other" budget in
\* check_budget_status exactly as one extracted with category "other".
C27_NullCategoryCountsAsOther ==
    (TransactionRequestReturned /\ obs.stored /\ obs.parsed # <<>>
        /\ obs.parsed[1].category = <<>>) =>
        /\ transactions[Len(transactions)].category = <<other>>
        /\ check_budget_status(transactions, budgets, obs.user_id, TRUE)
               = StatusAsOther

\* C28: when add_to_vectordb raises in a run_agent call whose session grew
\* past 10 messages, the user's stored session and memory summary are what
\* they were before the call, so at most 10 messages stay stored.
C28_ArchiveFailureLeavesSession ==
    [][(/\ obs'.handler = "run_agent"
        /\ result'.status = "raised"
        /\ result'.answer = Answer("add_to_vectordb"))
       => (/\ obs'.user_id \in DOMAIN sessions
           /\ sessions'[obs'.user_id] = sessions[obs'.user_id]
           /\ Len(sessions'[obs'.user_id].session) <= ArchiveThreshold)]_vars

\* everything the finance store answers about user_id: the budget status
\* and each report the spending branches read
ReportsOf(txs, bs, user_id, now) ==
    [status |-> check_budget_status(txs, bs, user_id, TRUE),
     daily |-> [d \in {now - 1, now} |->
                   <<get_daily_summary(txs, user_id, d, TRUE),
                     get_daily_spending(txs, user_id, d, TRUE)>>],
     weekly |-> get_date_range_spending(txs, user_id, now - 6, now, TRUE),
     monthly |-> [c \in {<<>>, food, other} |->
                     get_monthly_spending(txs, user_id, c, now, TRUE, TRUE)]]

\* C29: finance data is isolated per user: a request handled for one user,
\* whatever it stores with add_transaction or set_budget, leaves the budget
\* status and every spending report of each other user as they were.
C29_FinanceIsolatedPerUser ==
    [][\A b \in Users \ {obs'.user_id} :
          ReportsOf(transactions', budgets', b, today')
             = ReportsOf(transactions, budgets, b, today)]_vars

\* u2 logged an expense on food and then set a food budget while u1 keeps
\* the earlier budget and expense on food
C29_Witness ==
    /\ obs.user_id = "u2"
    /\ obs.handler = "handle_budget_request"
    /\ Len(budgets) = 2
    /\ Len(transactions) = 2
    /\ transactions[2].user_id = "u2"
    /\ transactions[2].category = <<food>>
    /\ budgets[1].user_id = "u1"
    /\ check_budget_status(transactions, budgets, "u1", TRUE)[1].spent = 80
    /\ check_budget_status(transactions, budgets, "u2", TRUE)[1].spent
          = transactions[2].amount

\* the messages stored for user_id, none when it has no session yet
StoredSession(user_id) ==
    IF user_id \in DOMAIN sessions THEN sessions[user_id].session ELSE <<>>

\* C30: sessions are isolated per user_id: a run_agent call for one user
\* leaves the session and memory summary of every other user as they were,
\* changes no archived chunk and archives only under the caller's id, and
\* hands the graph the caller's last 4 stored messages followed by the new
\* query and nothing else.
C30_SessionsIsolatedPerUser ==
    [][obs'.handler = "run_agent" =>
         /\ DOMAIN sessions' = DOMAIN sessions \cup {obs'.user_id}
         /\ \A u \in DOMAIN sessions \ {obs'.user_id} :
               sessions'[u] = sessions[u]
         /\ Len(chat_memory_store') >= Len(chat_memory_store)
         /\ SubSeq(chat_memory_store', 1, Len(chat_memory_store))
               = chat_memory_store
         /\ \A i \in (Len(chat_memory_store) + 1)..Len(chat_memory_store') :
               chat_memory_store'[i].session_id = obs'.user_id
         /\ LET stored == StoredSession(obs'.user_id)
                n == Len(stored)
            IN obs'.messages
                  = SubSeq(stored, Max({1, n - 3}), n)
                       \o <<HumanMessage(obs'.turn)>>]_vars

\* u2's fourth turn, made while u1 holds a session of its own: the graph
\* is handed 4 of u2's 6 stored messages and the new query
C30_Witness ==
    /\ obs.handler = "run_agent"
    /\ obs.user_id = "u2"
    /\ Len(obs.before) = 6
    /\ Len(obs.messages) = 5
    /\ obs.messages[1] = obs.before[3]
    /\ obs.messages[5] = HumanMessage(obs.turn)
    /\ "u1" \in DOMAIN sessions
    /\ sessions["u1"].session # <<>>
    /\ Len(sessions["u2"].session) = 8

====
